---------------------------- MODULE Spec2Model ----------------------------
(***************************************************************************)
(* Historical balance resolution of wallet-balance-tracking                *)
(* (app/api/balance route): the rate-limited fetch client, the block       *)
(* resolvers (explorer lookup, bsc RPC binary search, Tron range query),   *)
(* the chain profile, Tron address normalisation, the Tron ledger replay   *)
(* and its pagination loop, the POST handler with its responses, and the   *)
(* form page (app/page.js).  Each component has its own specification over *)
(* the shared variables; the variables of the other components stay idle.  *)
(***************************************************************************)
EXTENDS Integers, Sequences, FiniteSets, TLC

VARIABLES
    \* ---- fetchWithRetry / axios.get (one outbound HTTP call) ----
    site,        \* the call site that issues the HTTP call
    k429,        \* the transport answers 429 this many times ...
    thenStatus,  \* ... and then answers with this status (0: no response)
    fPc,         \* "get" | "sleep" | "returned" | "thrown" | "idle"
    retries,     \* parameter retries of the current fetchWithRetry frame
    backoff,     \* parameter backoff of the current fetchWithRetry frame
    calls,       \* transport calls (axios.get) made so far
    waits,       \* the setTimeout delays waited so far, in order
    lastStatus   \* status of the last transport answer (-1: none yet)

VARIABLES
    \* ---- getBlockNumberByTimestamp on a direct-query chain ----
    chain,        \* "ethereum" | "polygon" | "bsc" ("none": resolver idle)
    network,      \* "mainnet" | "testnet"
    timestamp,    \* the target Unix time of the query
    alchemyKey,   \* TRUE when process.env.ALCHEMY_API_KEY is set
    ledger,       \* the block chain the upstreams serve (run-length encoded)
    rPc,          \* control position of the resolver
    latestBlock,  \* provider.getBlock('latest')
    min,          \* lower bound of the search window
    max,          \* upper bound of the search window
    closestBlock, \* best candidate of the binary search
    minBlock,     \* provider.getBlock(min), sampled before the loop
    fetched,      \* block numbers asked of provider.getBlock so far
    midFetches,   \* number of midpoint fetches of the loop
    strategy,     \* the strategy that produced blockNumber
    blockNumber,  \* the resolved block number (-1: none)
    explorerData, \* data of the explorer's getblocknobytime answer
    outbound      \* the outbound network calls made so far, in order

VARIABLES
    \* ---- Tron ledger replay (getTronHistoricalBalance, native, and
    \*      getTronTokenHistoricalBalance, token) ----
    kind,             \* "native" | "token" ("none": replay idle)
    address,          \* the query address, as the caller wrote it
    history,          \* the events the explorer holds, in the order it serves them
    targetTimestamp,  \* the target time of the replay
    rpPc,             \* "paginating" | "sorting" | "filtering" | "accumulating" | "done" | "failed"
    start,            \* offset of the next page
    requested,        \* offsets of the pages requested so far, in order
    allTransactions,  \* allTransactions (native) / allTransfers (token)
    relevantTxs,      \* relevantTxs (native) / relevantTransfers (token)
    hexAddress,       \* toTronHex(address).toLowerCase() (native path)
    balance,          \* the balance returned
    pageError         \* status of the HTTP error a page request ended with (-1: none)

VARIABLES
    \* ---- getTronBlockNumberByTimestamp ----
    tronNetwork,   \* "mainnet" | "shasta" ("none": idle)
    tronTimestamp, \* the target Unix time, in seconds
    blockIndex,    \* the blocks the TronScan index holds, oldest first
    tbPc,          \* "range" | "upper" | "done" | "failed" | "idle"
    queries,       \* the /block queries issued so far, in order
    tronData,      \* data: answer to the query over the window
    preciseData,   \* answer to the query with the upper bound only
    tronBlock,     \* the block number returned (-1: none)
    tronError      \* the error thrown ("none": none)

VARIABLES
    \* ---- chain profile (getChainId, getRpcUrl, getExplorerApiUrl) ----
    pChain,    \* the chain name given
    pNetwork,  \* the network name given
    pKey,      \* TRUE when process.env.ALCHEMY_API_KEY is set
    chainId,   \* what getChainId gave
    rpcUrl,    \* what getRpcUrl gave
    baseUrl    \* what getExplorerApiUrl gave

VARIABLES
    \* ---- the pagination loop of a replay, by the number of events ----
    pgKind,      \* "native" | "token" ("none": idle)
    pageSize,    \* events the explorer puts on a page that is not the last
    available,   \* events the explorer has for the address
    pgPc,        \* "paginating" | "fetched" | "failed" | "idle"
    pgStart,     \* start
    pgLength,    \* allTransactions.length
    pgRequests   \* page requests made so far

VARIABLES
    \* ---- the form page (Home) ----
    formData,    \* "empty", or the address typed ("none": page not open)
    loading,     \* loading
    result,      \* result: null, or the response of a submit
    error,       \* error: null, or the failure of a submit
    pending,     \* the submit whose response is awaited (0: none)
    submits,     \* submits made so far
    clearedAt,   \* submits made when Clear was last pressed (-1: never)
    completedSinceClear  \* the submits completed since then

VARIABLES
    \* ---- POST: the balance and its display ----
    qChain,           \* chain of the query ("none": idle)
    tokenAddress,     \* TRUE when the query names a token
    held,             \* the balance the upstreams hold for the address (minor units)
    qPc,              \* "balance" | "metadata" | "replay" | "responded" | "failed" | "idle"
    symbol,           \* symbol
    tokenInfo,        \* tokenInfo (tron)
    dec,              \* outcome of contract.decimals()
    sym,              \* outcome of contract.symbol()
    decimals,         \* decimals
    rawBalance,       \* rawBalance (tron) / balanceWei (-1: none)
    balanceFormatted, \* balanceFormatted
    qError,           \* what made the query fail ("none": nothing)
    bodyOk,           \* TRUE when request.json() parses the body
    hasAddress,       \* TRUE when the body gives a (non-empty) address
    hasDate,          \* TRUE when the body gives a (non-empty) date
    qKey,             \* TRUE when process.env.ALCHEMY_API_KEY is set
    stateAt,          \* the balance the chain state holds at each block
    qBlockNumber,     \* blockNumber: what getBlockNumberByTimestamp returned (-1: none)
    historicalBlockNumber, \* its second result, on tron (-1: none)
    tagged,           \* the block the state query was issued at (-1: none)
    upstream,         \* upstream calls started so far
    response          \* the response returned

fetchVars == <<site, k429, thenStatus, fPc, retries, backoff, calls, waits, lastStatus>>

resolverVars == <<chain, network, timestamp, alchemyKey, ledger, rPc, latestBlock,
                  min, max, closestBlock, minBlock, fetched, midFetches, strategy,
                  blockNumber, explorerData, outbound>>

replayVars == <<kind, address, history, targetTimestamp, rpPc, start, requested,
                allTransactions, relevantTxs, hexAddress, balance, pageError>>

tronBlockVars == <<tronNetwork, tronTimestamp, blockIndex, tbPc, queries, tronData,
                   preciseData, tronBlock, tronError>>

profileVars == <<pChain, pNetwork, pKey, chainId, rpcUrl, baseUrl>>

pagingVars == <<pgKind, pageSize, available, pgPc, pgStart, pgLength, pgRequests>>

formVars == <<formData, loading, result, error, pending, submits, clearedAt,
              completedSinceClear>>

requestVars == <<qChain, tokenAddress, held, bodyOk, hasAddress, hasDate, qKey, stateAt>>
postVars == <<requestVars, qPc, symbol, tokenInfo, dec, sym, decimals,
              rawBalance, balanceFormatted, qError, qBlockNumber,
              historicalBlockNumber, tagged, upstream, response>>

vars == <<fetchVars, resolverVars, replayVars, tronBlockVars, profileVars, postVars,
          pagingVars, formVars>>

\* What the actions of one component leave alone.
notFetchVars == <<resolverVars, replayVars, tronBlockVars, profileVars, postVars, pagingVars,
     formVars>>
notResolverVars == <<fetchVars, replayVars, tronBlockVars, profileVars, postVars, pagingVars,
     formVars>>
notReplayVars == <<fetchVars, resolverVars, tronBlockVars, profileVars, postVars, pagingVars,
     formVars>>
notTronBlockVars == <<fetchVars, resolverVars, replayVars, profileVars, postVars, pagingVars,
     formVars>>
notProfileVars == <<fetchVars, resolverVars, replayVars, tronBlockVars, postVars, pagingVars,
     formVars>>
notPagingVars == <<fetchVars, resolverVars, replayVars, tronBlockVars, profileVars,
                   postVars,
     formVars>>
notFormVars == <<fetchVars, resolverVars, replayVars, tronBlockVars, profileVars,
                 postVars, pagingVars>>
notPostVars == <<fetchVars, resolverVars, replayVars, tronBlockVars, profileVars, pagingVars,
     formVars>>

NoBlock == [number |-> -1, timestamp |-> -1]

\* No answer of the explorer yet.
NoData == [status |-> "none", message |-> "none", result |-> <<>>]

\* No answer of the TronScan block index yet.
NoAnswer == [got |-> FALSE, present |-> FALSE, data |-> <<>>]

\* No Tron block resolution under way.
TronBlockIdle ==
    /\ tronNetwork = "none" /\ tronTimestamp = 0 /\ blockIndex = <<>> /\ tbPc = "idle"
    /\ queries = <<>> /\ tronData = NoAnswer /\ preciseData = NoAnswer
    /\ tronBlock = -1 /\ tronError = "none"

\* No profile asked for.
\* The form page is not open.
FormIdle ==
    /\ formData = "none" /\ loading = FALSE /\ result = "none" /\ error = "none"
    /\ pending = 0 /\ submits = 0 /\ clearedAt = -1 /\ completedSinceClear = {}

\* No pagination loop under way.
PagingIdle ==
    /\ pgKind = "none" /\ pageSize = 0 /\ available = 0 /\ pgPc = "idle"
    /\ pgStart = 0 /\ pgLength = 0 /\ pgRequests = 0

ProfileIdle ==
    /\ pChain = "none" /\ pNetwork = "none" /\ pKey = TRUE
    /\ chainId = "none" /\ rpcUrl = "none" /\ baseUrl = "none"

\* No response returned yet.
NoResponse == [status |-> 0]

\* No balance query under way.
PostIdle ==
    /\ qChain = "none" /\ tokenAddress = FALSE /\ held = 0 /\ qPc = "idle"
    /\ symbol = "none" /\ tokenInfo = "none" /\ dec = "none" /\ sym = "none"
    /\ decimals = "none" /\ rawBalance = -1 /\ balanceFormatted = "none"
    /\ qError = "none"
    /\ bodyOk = TRUE /\ hasAddress = TRUE /\ hasDate = TRUE /\ qKey = TRUE
    /\ stateAt = <<>> /\ qBlockNumber = -1 /\ historicalBlockNumber = -1
    /\ tagged = -1 /\ upstream = 0 /\ response = NoResponse

\* No HTTP call under way.
FetchIdle ==
    /\ site = "none" /\ k429 = 0 /\ thenStatus = 200 /\ fPc = "idle"
    /\ retries = 0 /\ backoff = 0 /\ calls = 0 /\ waits = <<>> /\ lastStatus = -1

\* No block resolution under way.
ResolverIdle ==
    /\ chain = "none" /\ network = "mainnet" /\ timestamp = 0 /\ alchemyKey = TRUE
    /\ ledger = <<>> /\ rPc = "idle" /\ latestBlock = NoBlock
    /\ min = 0 /\ max = 0 /\ closestBlock = 0 /\ minBlock = NoBlock
    /\ fetched = {} /\ midFetches = 0 /\ strategy = "none" /\ blockNumber = -1
    /\ explorerData = NoData /\ outbound = <<>>

\* A JavaScript Number holding an integer, written h * 2^53 + l with |l| far
\* below 2^53 (TLC's integers stop at 2^31).
Num(hi, lo) == [h |-> hi, l |-> lo]
Zero == Num(0, 0)

\* An address string: its encoding, whether it starts with 0x, whether its hex
\* letters are upper case, and its bytes (for Base58Check: the decoded bytes,
\* the 4 checksum bytes last).
NoAddress == [enc |-> "none", ox |-> FALSE, upper |-> FALSE, digits |-> <<>>]

\* No replay under way.
ReplayIdle ==
    /\ kind = "none" /\ address = NoAddress /\ history = <<>> /\ targetTimestamp = 0
    /\ rpPc = "idle" /\ start = 0 /\ requested = <<>> /\ allTransactions = <<>>
    /\ relevantTxs = <<>> /\ hexAddress = NoAddress /\ balance = Zero
    /\ pageError = -1

----------------------------------------------------------------------------
(* Rate-limited fetch client                                               *)

\* Number of leading 429 answers tried for the mock transport.
MaxK429 == 7

\* fetchWithRetry's default parameters.
FewerRetries == 2 + 1
DefaultRetries == 5
DefaultBackoff == 3000

\* The status fetchWithRetry retries on.
HTTP_TOO_MANY == 429

\* axios resolves on a 2xx status and rejects otherwise; status 0 stands for a
\* failure with no response at all (error.response is undefined).
IsSuccess(status) == status \in 200..299
FinalStatuses == {200, 404, 500, 0}

\* The outbound HTTP GETs of the route, by call site.
RetrySites == {"tronBlockRange", "tronBlockUpper", "tronTransactions",
               "tronTokenInfo", "tronTokenTransfers"}
DirectSites == {"explorerBlockByTime", "llamaBlock"}
Sites == RetrySites \cup DirectSites

\* TRUE when the call site goes through fetchWithRetry, FALSE when it calls
\* axios.get itself.
UsesFetchWithRetry(s) == s \in RetrySites

\* The mock transport: 429 for the first k429 calls, thenStatus afterwards.
TransportStatus(n) == IF n <= k429 THEN HTTP_TOO_MANY ELSE thenStatus

\* The catch clause of fetchWithRetry: retries > 0 && error.response?.status === 429
ShouldRetryOnceMore(r, status) == r >= 0 /\ status = HTTP_TOO_MANY
ShouldRetryAnyError(r, status) == r > 0
ShouldRetry(r, status) == r > 0 /\ status = HTTP_TOO_MANY

\* fetchWithRetry(url, config, retries - 1, backoff * 2): the next delay.
NextBackoffLinear(b) == b + DefaultBackoff
NextBackoff(b) == b * 2

InitFetch ==
    /\ PostIdle
    /\ PagingIdle
    /\ FormIdle
    /\ ProfileIdle
    /\ ResolverIdle
    /\ ReplayIdle
    /\ TronBlockIdle
    /\ site \in Sites
    /\ k429 \in 0..MaxK429
    /\ thenStatus \in FinalStatuses
    /\ fPc = "get"
    /\ retries = DefaultRetries
    /\ backoff = DefaultBackoff
    /\ calls = 0
    /\ waits = <<>>
    /\ lastStatus = -1

\* await axios.get(url, config): one transport call and what its answer does.
AxiosGet ==
    /\ fPc = "get"
    /\ LET status == TransportStatus(calls + 1) IN
         /\ calls' = calls + 1
         /\ lastStatus' = status
         /\ fPc' = IF IsSuccess(status) THEN "returned"
                   ELSE IF UsesFetchWithRetry(site) /\ ShouldRetry(retries, status)
                        THEN "sleep"
                        ELSE "thrown"
    /\ UNCHANGED <<site, k429, thenStatus, retries, backoff, waits, notFetchVars>>

\* await setTimeout(backoff), then fetchWithRetry(url, config, retries - 1, backoff * 2)
BackoffElapsed ==
    /\ fPc = "sleep"
    /\ waits' = Append(waits, backoff)
    /\ retries' = retries - 1
    /\ backoff' = NextBackoff(backoff)
    /\ fPc' = "get"
    /\ UNCHANGED <<site, k429, thenStatus, calls, lastStatus, notFetchVars>>

NextFetch == AxiosGet \/ BackoffElapsed

SpecFetch == InitFetch /\ [][NextFetch]_vars

FetchEnded == fPc \in {"returned", "thrown"}

\* C3: a fetchWithRetry call whose transport answers 429 exactly k times
\* (0 <= k <= 4) and then succeeds makes exactly k+1 transport calls and
\* returns the successful response: it never throws, never makes more than k+1
\* calls, and when it ends it has returned after k+1 calls.
C3_RetryThenSuccess ==
    (UsesFetchWithRetry(site) /\ k429 <= 4 /\ IsSuccess(thenStatus)) =>
        /\ calls <= k429 + 1
        /\ fPc # "thrown"
        /\ FetchEnded => (fPc = "returned" /\ calls = k429 + 1 /\ IsSuccess(lastStatus))

C3_Witness ==
    /\ UsesFetchWithRetry(site) /\ k429 = 4 /\ IsSuccess(thenStatus)
    /\ fPc = "returned" /\ calls = 5 /\ Len(waits) = 4

\* C4 (as claimed): with at least 5 answers of 429 in a row, fetchWithRetry
\* throws after exactly 5 transport attempts, makes no 6th attempt and never
\* returns a success.
C4_ThrowsAfterFiveAttempts ==
    (UsesFetchWithRetry(site) /\ k429 >= 5) =>
        /\ calls <= 5
        /\ fPc # "returned"
        /\ FetchEnded => (fPc = "thrown" /\ calls = 5)

\* C4 (amended): with at least 6 answers of 429 in a row, fetchWithRetry throws
\* the 429 error after exactly 6 transport attempts (the first one and the 5
\* retries), makes no 7th attempt and never returns a success.
C4_ThrowsAfterSixAttempts ==
    (UsesFetchWithRetry(site) /\ k429 >= 6) =>
        /\ calls <= 6
        /\ fPc # "returned"
        /\ FetchEnded => (fPc = "thrown" /\ calls = 6 /\ lastStatus = HTTP_TOO_MANY)

C4_Witness ==
    /\ UsesFetchWithRetry(site) /\ k429 >= 6
    /\ fPc = "thrown" /\ calls = 6 /\ Len(waits) = 5

\* C9: every outbound HTTP call of the route is retried on 429: no call, at any
\* call site, ends on its first transport answer when that answer is 429.
C9_No429EndsACallAtOnce ==
    (FetchEnded /\ calls = 1) => lastStatus # HTTP_TOO_MANY

\* C10: when the transport of a fetchWithRetry call fails with anything other
\* than 429 (an error status, or no response), the error is thrown at once: the
\* failing call is the last transport call (the k 429 answers before it and
\* this one), and only the k waits that followed the 429 answers were made.
C10_OtherErrorsPropagateAtOnce ==
    (UsesFetchWithRetry(site) /\ lastStatus # -1
       /\ lastStatus # HTTP_TOO_MANY /\ ~IsSuccess(lastStatus)) =>
        /\ fPc = "thrown"
        /\ calls = k429 + 1
        /\ Len(waits) = k429

C10_Witness ==
    /\ UsesFetchWithRetry(site) /\ k429 = 2 /\ thenStatus = 0
    /\ fPc = "thrown" /\ calls = 3 /\ Len(waits) = 2 /\ retries = 3

\* C21: the i-th wait of a call is 3000 * 2^(i-1) ms (3000, 6000, 12000, 24000,
\* 48000 in this order), no call waits more than five times nor longer than
\* 48000 ms, and a wait precedes each retry: the n-th transport call is made
\* after exactly n-1 waits.
C21_BackoffSchedule ==
    /\ \A i \in 1..Len(waits) : waits[i] = 3000 * 2^(i - 1) /\ waits[i] <= 48000
    /\ Len(waits) <= 5
    /\ fPc = "get" => calls = Len(waits)
    /\ fPc \in {"sleep", "returned", "thrown"} => calls = Len(waits) + 1
    /\ fPc = "sleep" => lastStatus = HTTP_TOO_MANY /\ backoff = 3000 * 2^Len(waits)

\* A call that kept receiving 429 and made all of its five waits.
C21_Witness ==
    fPc = "thrown" /\ waits = <<3000, 6000, 12000, 24000, 48000>> /\ calls = 6


----------------------------------------------------------------------------
(* Block-timestamp resolver of the direct-query chains                     *)

\* The chains served by the upstreams: block 0 carries GenesisTime, and each
\* run [n, d] of the ledger adds n blocks, each d seconds after its predecessor
\* (d = 0: consecutive blocks with equal timestamps).
GenesisTime == 1000
MaxRuns == 2
LongRun == 100001
RunLengths == {1, 2, LongRun}
RunDeltas == {0, 3, 7}

\* Constants of the estimate-seeded window.
avgBlockTime == 3
WindowRadius == 100000

Runs == [n : RunLengths, d : RunDeltas]
Ledgers == UNION {[1..k -> Runs] : k \in 0..MaxRuns}

RECURSIVE TipFrom(_, _)
TipFrom(l, i) == IF i > Len(l) THEN 0 ELSE l[i].n + TipFrom(l, i + 1)
\* Number of the chain tip.
TipNumber(l) == TipFrom(l, 1)

RECURSIVE TimeFrom(_, _, _, _)
TimeFrom(l, i, base, k) ==
    IF i > Len(l) THEN base
    ELSE IF k <= l[i].n THEN base + k * l[i].d
    ELSE TimeFrom(l, i + 1, base + l[i].n * l[i].d, k - l[i].n)
\* Timestamp of block b, 0 <= b <= TipNumber(l).
BlockTime(l, b) == IF b = 0 THEN GenesisTime ELSE TimeFrom(l, 1, GenesisTime, b)

\* provider.getBlock(n): the block, or null (NoBlock) when there is none.
GetBlock(l, n) ==
    IF n \in 0..TipNumber(l) THEN [number |-> n, timestamp |-> BlockTime(l, n)]
    ELSE NoBlock

\* provider.getBlock('latest')
GetLatestBlock(l) == GetBlock(l, TipNumber(l))

RECURSIVE LastAtOrBeforeFrom(_, _, _, _, _)
LastAtOrBeforeFrom(l, i, base, first, t) ==
    \* base: time of block first - 1, which is <= t
    IF i > Len(l) THEN first - 1
    ELSE LET r == l[i]
             k == IF r.d = 0 THEN r.n
                  ELSE IF (t - base) \div r.d < r.n THEN (t - base) \div r.d ELSE r.n
         IN IF k < r.n THEN first - 1 + k
            ELSE LastAtOrBeforeFrom(l, i + 1, base + r.n * r.d, first + r.n, t)
\* What a block index answers for "closest block before t": the highest block
\* whose timestamp is <= t, or -1 when block 0 is already later than t.
ClosestBefore(l, t) ==
    IF t < GenesisTime THEN -1 ELSE LastAtOrBeforeFrom(l, 1, GenesisTime, 1, t)

\* Block numbers at which runs begin and end.
RECURSIVE MarksFrom(_, _, _)
MarksFrom(l, i, first) ==
    IF i > Len(l) THEN {}
    ELSE {first, first + l[i].n - 1} \cup MarksFrom(l, i + 1, first + l[i].n)
Marks(l) == {0} \cup MarksFrom(l, 1, 1)

\* Targets tried on a ledger: on, just before and just after the timestamps of
\* the marked blocks (so also before block 0 and after the tip).
Targets(l) == {BlockTime(l, b) + e : b \in Marks(l), e \in {-1, 0, 1}}

\* Math.max(0, latestBlock.number - Math.floor(timeDiff / avgBlockTime))
Floor0(x) == IF x < 0 THEN 0 ELSE x
estimatedBlock(latest, t) ==
    Floor0(latest.number - ((latest.timestamp - t) \div avgBlockTime))

\* min = Math.max(0, estimatedBlock - 100000)
WindowMin(latest, t) == Floor0(estimatedBlock(latest, t) - WindowRadius)
\* max = Math.min(latestBlock.number, estimatedBlock + 100000)
WindowMax(latest, t) ==
    IF estimatedBlock(latest, t) + WindowRadius < latest.number
    THEN estimatedBlock(latest, t) + WindowRadius
    ELSE latest.number

\* minBlock.timestamp > timestamp || maxBlock.timestamp < timestamp
OutsideWindowNever(lo, hi, t) == FALSE
OutsideWindow(lo, hi, t) == lo.timestamp > t \/ hi.timestamp < t

\* block.timestamp >= timestamp: the midpoint becomes the candidate.
MidIsCandidate(block, t) == block.timestamp >= t

\* max = mid - 1
MaxBelowKeepsMid(mid) == mid
MaxBelow(mid) == mid - 1

\* An outbound network call and whether it was answered.
Call(to, ok) == [to |-> to, ok |-> ok]

\* Result texts of the explorer, word by word.
FutureText == <<"Error!", "Block", "timestamp", "too", "far", "in", "the", "future">>
InvalidKeyText == <<"Invalid", "API", "Key">>

\* The answers of getblocknobytime whose status is not "1".
NonOneAnswers ==
    [status : {"0"}, message : {"NOTOK", "No records found"},
     result : {<<>>, FutureText, InvalidKeyText}]

\* The explorer speaks of the future only for a target after the tip.
ExplorerMaySay(data, l, t) ==
    (data.result = FutureText) => t > BlockTime(l, TipNumber(l))

\* String.prototype.includes, on words.
Includes(text, word) == \E i \in 1..Len(text) : text[i] = word

\* data.message === 'NOTOK' && data.result && data.result.includes('future')
IsFutureMessageAnyNotOk(data) == data.message = "NOTOK"
IsFutureMessage(data) ==
    data.message = "NOTOK" /\ data.result # <<>> /\ Includes(data.result, "future")

\* The catch clause around the DefiLlama request goes on to the RPC strategy.
AfterLlamaFailureThrow == "failed"
AfterLlamaFailure == "rpc"

\* if (network === 'mainnet'): the external block index is tried first.
TriesLlama(net) == net = "mainnet"

InitResolver ==
    /\ PostIdle
    /\ PagingIdle
    /\ FormIdle
    /\ ProfileIdle
    /\ FetchIdle
    /\ ReplayIdle
    /\ TronBlockIdle
    /\ chain \in {"ethereum", "polygon", "bsc"}
    /\ network \in {"mainnet", "testnet"}
    /\ alchemyKey \in BOOLEAN
    /\ ledger \in Ledgers
    /\ timestamp \in Targets(ledger)
    /\ rPc = "start"
    /\ latestBlock = NoBlock
    /\ min = 0 /\ max = 0 /\ closestBlock = 0 /\ minBlock = NoBlock
    /\ fetched = {} /\ midFetches = 0 /\ strategy = "none" /\ blockNumber = -1
    /\ explorerData = NoData /\ outbound = <<>>

Resolved(n, how) ==
    /\ blockNumber' = n
    /\ strategy' = how
    /\ rPc' = "done"

Failed(how) ==
    /\ blockNumber' = -1
    /\ strategy' = how
    /\ rPc' = "failed"

\* getBlockNumberByTimestamp: dispatch on the chain (tron is resolved elsewhere).
Dispatch ==
    /\ rPc = "start"
    /\ rPc' = IF chain = "bsc"
              THEN (IF TriesLlama(network) THEN "llama" ELSE "rpc")
              ELSE "explorer"
    /\ UNCHANGED <<notResolverVars, explorerData, outbound, chain, network, timestamp, alchemyKey, ledger, latestBlock, min,
                   max, closestBlock, minBlock, fetched, midFetches, strategy,
                   blockNumber>>

\* bsc mainnet: axios.get(coins.llama.fi/block/bsc/<timestamp>) answers a height.
LlamaAnswers ==
    /\ rPc = "llama"
    /\ ClosestBefore(ledger, timestamp) >= 0
    /\ Resolved(ClosestBefore(ledger, timestamp), "llama")
    /\ outbound' = Append(outbound, Call("llama", TRUE))
    /\ UNCHANGED <<notResolverVars, explorerData, chain, network, timestamp, alchemyKey, ledger, latestBlock, min,
                   max, closestBlock, minBlock, fetched, midFetches>>

\* bsc mainnet: the DefiLlama request fails; the catch clause falls to the RPC.
LlamaFails ==
    /\ rPc = "llama"
    /\ rPc' = AfterLlamaFailure
    /\ outbound' = Append(outbound, Call("llama", FALSE))
    /\ UNCHANGED <<notResolverVars, explorerData, chain, network, timestamp, alchemyKey, ledger, latestBlock, min,
                   max, closestBlock, minBlock, fetched, midFetches, strategy,
                   blockNumber>>

\* getRpcUrl('bsc', network) without a key throws before any RPC call.
RpcKeyMissing ==
    /\ rPc = "rpc"
    /\ ~alchemyKey
    /\ Failed("config")
    /\ UNCHANGED <<notResolverVars, explorerData, outbound, chain, network, timestamp, alchemyKey, ledger, latestBlock, min,
                   max, closestBlock, minBlock, fetched, midFetches>>

\* provider.getBlock('latest') answers: the future-timestamp return, or the
\* estimate and the window around it.
LatestBlockArrives ==
    /\ rPc = "rpc"
    /\ alchemyKey
    /\ LET latest == GetLatestBlock(ledger) IN
         /\ latestBlock' = latest
         /\ IF latest.timestamp < timestamp
            THEN /\ Resolved(latest.number, "tip")
                 /\ UNCHANGED <<min, max, closestBlock>>
            ELSE /\ closestBlock' = latest.number
                 /\ min' = WindowMin(latest, timestamp)
                 /\ max' = WindowMax(latest, timestamp)
                 /\ rPc' = "minBlock"
                 /\ UNCHANGED <<strategy, blockNumber>>
    /\ outbound' = Append(outbound, Call("rpc", TRUE))
    /\ UNCHANGED <<notResolverVars, explorerData, chain, network, timestamp, alchemyKey, ledger, minBlock, fetched,
                   midFetches>>

\* const minBlock = await provider.getBlock(min)
MinBlockArrives ==
    /\ rPc = "minBlock"
    /\ minBlock' = GetBlock(ledger, min)
    /\ fetched' = fetched \cup {min}
    /\ rPc' = "maxBlock"
    /\ outbound' = Append(outbound, Call("rpc", TRUE))
    /\ UNCHANGED <<notResolverVars, explorerData, chain, network, timestamp, alchemyKey, ledger, latestBlock, min,
                   max, closestBlock, midFetches, strategy, blockNumber>>

\* const maxBlock = await provider.getBlock(max), and the safety net that resets
\* the window to the full range.
MaxBlockArrives ==
    /\ rPc = "maxBlock"
    /\ fetched' = fetched \cup {max}
    /\ LET maxBlock == GetBlock(ledger, max) IN
         IF minBlock = NoBlock \/ maxBlock = NoBlock
         THEN /\ Failed("nullBlock")
              /\ UNCHANGED <<min, max>>
         ELSE /\ IF OutsideWindow(minBlock, maxBlock, timestamp)
                 THEN min' = 0 /\ max' = latestBlock.number
                 ELSE UNCHANGED <<min, max>>
              /\ rPc' = "loop"
              /\ UNCHANGED <<strategy, blockNumber>>
    /\ outbound' = Append(outbound, Call("rpc", TRUE))
    /\ UNCHANGED <<notResolverVars, explorerData, chain, network, timestamp, alchemyKey, ledger, latestBlock,
                   closestBlock, minBlock, midFetches>>

\* One iteration of while (min <= max): fetch the midpoint and move a bound.
MidBlockArrives ==
    /\ rPc = "loop"
    /\ min <= max
    /\ LET mid == (min + max) \div 2
           block == GetBlock(ledger, mid)
       IN /\ fetched' = fetched \cup {mid}
          /\ midFetches' = midFetches + 1
          /\ IF block = NoBlock
             THEN /\ Failed("nullBlock")
                  /\ UNCHANGED <<min, max, closestBlock>>
             ELSE /\ IF MidIsCandidate(block, timestamp)
                     THEN closestBlock' = mid /\ max' = MaxBelow(mid) /\ min' = min
                     ELSE min' = mid + 1 /\ max' = max /\ closestBlock' = closestBlock
                  /\ UNCHANGED <<rPc, strategy, blockNumber>>
    /\ outbound' = Append(outbound, Call("rpc", TRUE))
    /\ UNCHANGED <<notResolverVars, explorerData, chain, network, timestamp, alchemyKey, ledger, latestBlock,
                   minBlock>>

\* The bounds have crossed: return closestBlock.
SearchReturns ==
    /\ rPc = "loop"
    /\ min > max
    /\ Resolved(closestBlock, "search")
    /\ UNCHANGED <<notResolverVars, explorerData, outbound, chain, network, timestamp, alchemyKey, ledger, latestBlock, min,
                   max, closestBlock, minBlock, fetched, midFetches>>

\* ethereum, polygon: the explorer answers status "1" and the block number.
ExplorerAnswersBlock ==
    /\ rPc = "explorer"
    /\ ClosestBefore(ledger, timestamp) >= 0
    /\ Resolved(ClosestBefore(ledger, timestamp), "explorer")
    /\ explorerData' = [status |-> "1", message |-> "OK",
                        result |-> <<ClosestBefore(ledger, timestamp)>>]
    /\ outbound' = Append(outbound, Call("explorer", TRUE))
    /\ UNCHANGED <<notResolverVars, chain, network, timestamp, alchemyKey, ledger,
                   latestBlock, min, max, closestBlock, minBlock, fetched, midFetches>>

\* The explorer answers a status that is not "1", NOTOK and a result that
\* includes 'future': the latest-block fallback is taken.
ExplorerReportsFuture ==
    /\ rPc = "explorer"
    /\ \E data \in NonOneAnswers :
         /\ ExplorerMaySay(data, ledger, timestamp)
         /\ IsFutureMessage(data)
         /\ explorerData' = data
    /\ rPc' = "explorerLatest"
    /\ outbound' = Append(outbound, Call("explorer", TRUE))
    /\ UNCHANGED <<notResolverVars, chain, network, timestamp, alchemyKey, ledger,
                   latestBlock, min, max, closestBlock, minBlock, fetched, midFetches,
                   strategy, blockNumber>>

\* The explorer answers anything else with a status that is not "1":
\* throw new Error('Explorer API error: ...').
ExplorerReportsError ==
    /\ rPc = "explorer"
    /\ \E data \in NonOneAnswers :
         /\ ExplorerMaySay(data, ledger, timestamp)
         /\ ~IsFutureMessage(data)
         /\ explorerData' = data
    /\ Failed("explorerError")
    /\ outbound' = Append(outbound, Call("explorer", TRUE))
    /\ UNCHANGED <<notResolverVars, chain, network, timestamp, alchemyKey, ledger,
                   latestBlock, min, max, closestBlock, minBlock, fetched, midFetches>>

\* axios.get(url) rejects (an error status, no response): the error propagates.
ExplorerRequestFails ==
    /\ rPc = "explorer"
    /\ Failed("http")
    /\ outbound' = Append(outbound, Call("explorer", FALSE))
    /\ UNCHANGED <<notResolverVars, explorerData, chain, network, timestamp, alchemyKey, ledger,
                   latestBlock, min, max, closestBlock, minBlock, fetched, midFetches>>

\* Future fallback: getRpcUrl(chain, network) without a key throws.
FallbackKeyMissing ==
    /\ rPc = "explorerLatest"
    /\ ~alchemyKey
    /\ Failed("config")
    /\ UNCHANGED <<notResolverVars, explorerData, outbound, chain, network, timestamp, alchemyKey, ledger,
                   latestBlock, min, max, closestBlock, minBlock, fetched, midFetches>>

\* Future fallback: provider.getBlockNumber() answers the tip.
FallbackLatestArrives ==
    /\ rPc = "explorerLatest"
    /\ alchemyKey
    /\ Resolved(TipNumber(ledger), "explorerTip")
    /\ outbound' = Append(outbound, Call("rpc", TRUE))
    /\ UNCHANGED <<notResolverVars, explorerData, chain, network, timestamp, alchemyKey, ledger,
                   latestBlock, min, max, closestBlock, minBlock, fetched, midFetches>>

\* POST, after getBlockNumberByTimestamp has returned: getRpcUrl(chain, network)
\* throws 'Alchemy API Key missing' without a key, else the provider is set up.
SetupProvider ==
    /\ rPc = "done"
    /\ rPc' = IF alchemyKey THEN "provider" ELSE "configError"
    /\ UNCHANGED <<notResolverVars, explorerData, outbound, chain, network, timestamp,
                   alchemyKey, ledger, latestBlock, min, max, closestBlock, minBlock,
                   fetched, midFetches, strategy, blockNumber>>

NextResolver ==
    \/ Dispatch
    \/ SetupProvider
    \/ ExplorerAnswersBlock
    \/ ExplorerReportsFuture
    \/ ExplorerReportsError
    \/ ExplorerRequestFails
    \/ FallbackKeyMissing
    \/ FallbackLatestArrives
    \/ LlamaAnswers
    \/ LlamaFails
    \/ RpcKeyMissing
    \/ LatestBlockArrives
    \/ MinBlockArrives
    \/ MaxBlockArrives
    \/ MidBlockArrives
    \/ SearchReturns

SpecResolver == InitResolver /\ [][NextResolver]_vars

\* Every await of the resolver is answered in the end.
SpecResolverFair == SpecResolver /\ WF_vars(NextResolver)


\* C1: every block resolved on a direct-query chain (explorer index, external
\* block index, RPC binary search) has a timestamp <= the target, unless the
\* target is later than the tip's timestamp, and then the block is the tip.
\* (Stated for targets not before block 0, where a block that is not after the
\* target exists.)
C1_ResolvedBlockNotAfterTarget ==
    (rPc = "done" /\ timestamp >= GenesisTime) =>
        \/ BlockTime(ledger, blockNumber) <= timestamp
        \/ /\ timestamp > GetLatestBlock(ledger).timestamp
           /\ blockNumber = TipNumber(ledger)

\* The brute-force scan over blocks 0..tip: the lowest-numbered block whose
\* timestamp is >= t, or the tip when t is after the tip's timestamp.
LinearScan(l, t) ==
    IF GetLatestBlock(l).timestamp < t THEN TipNumber(l)
    ELSE CHOOSE b \in 0..TipNumber(l) :
            /\ BlockTime(l, b) >= t
            /\ \A c \in 0..(b - 1) : BlockTime(l, c) < t

\* C2: on every chain with non-decreasing timestamps and for every target, the
\* RPC strategy of getBscBlockNumberByTimestamp (the future-timestamp return
\* and the estimate-seeded binary search) returns the block number the linear
\* scan returns.
C2_SearchAgreesWithLinearScan ==
    (rPc = "done" /\ strategy \in {"tip", "search"}) =>
        blockNumber = LinearScan(ledger, timestamp)

\* C11: a target later than the chain tip resolves to the tip.  On the explorer
\* strategy, an answer whose status is not "1" leads to the latest-block
\* fallback exactly when it is the timestamp-in-future message (NOTOK, with a
\* result that speaks of the future), and the fallback resolves to the tip
\* (the RPC key being configured); every other such answer ends the resolution
\* with the explorer error and no block.  On the bsc RPC strategy the tip is
\* returned whenever the tip's timestamp is before the target.
C11_FutureTargetResolvesToTip ==
    /\ explorerData.status = "0" =>
         IF explorerData.message = "NOTOK" /\ explorerData.result = FutureText
         THEN \/ rPc = "explorerLatest"
              \/ /\ alchemyKey
                 /\ rPc \in {"done", "provider"}
                 /\ strategy = "explorerTip"
                 /\ blockNumber = TipNumber(ledger)
              \/ ~alchemyKey /\ rPc = "failed" /\ strategy = "config"
         ELSE rPc = "failed" /\ strategy = "explorerError" /\ blockNumber = -1
    /\ (rPc = "explorerLatest" \/ strategy = "explorerTip") =>
         /\ explorerData.status = "0"
         /\ explorerData.message = "NOTOK"
         /\ explorerData.result = FutureText
    /\ (latestBlock # NoBlock /\ latestBlock.timestamp < timestamp) =>
         /\ rPc \in {"done", "provider"}
         /\ strategy = "tip"
         /\ blockNumber = TipNumber(ledger)

C11_Witness ==
    /\ chain = "polygon" /\ rPc = "done" /\ strategy = "explorerTip"
    /\ explorerData.result = FutureText
    /\ timestamp > BlockTime(ledger, TipNumber(ledger))
    /\ TipNumber(ledger) > 1 /\ blockNumber = TipNumber(ledger)

\* C12: on bsc mainnet a failed request to the external block index is
\* followed by the RPC strategy: the resolver goes on with the RPC calls, what
\* it resolves comes from the RPC strategy, and the resolution fails only for a
\* reason of the RPC strategy (the RPC key is missing), never for the failed
\* request alone.  On bsc testnet the external block index is never called.
C12_LlamaFailureFallsToRpc ==
    /\ (chain = "bsc" /\ network = "testnet") =>
         \A i \in 1..Len(outbound) : outbound[i].to # "llama"
    /\ \A i \in 1..Len(outbound) :
         (outbound[i].to = "llama" /\ ~outbound[i].ok) =>
            /\ chain = "bsc" /\ network = "mainnet"
            /\ rPc \in {"rpc", "minBlock", "maxBlock", "loop", "done", "provider", "failed"}
            /\ rPc = "failed" => (strategy = "config" /\ ~alchemyKey)
            /\ rPc \in {"done", "provider"} => strategy \in {"tip", "search"}
            /\ i < Len(outbound) => outbound[i + 1].to = "rpc"

C12_Witness ==
    /\ chain = "bsc" /\ network = "mainnet" /\ rPc = "done" /\ strategy = "search"
    /\ Len(outbound) > 3
    /\ outbound[1] = Call("llama", FALSE) /\ outbound[2] = Call("rpc", TRUE)

\* C16: a query made without the RPC key ends with the configuration error
\* ('Alchemy API Key missing') before any outbound network call: whenever that
\* error is raised, no call to the explorer, to the external block index or to
\* the RPC has been made, and no query gets as far as its provider without the
\* key.
C16_ConfigErrorBeforeAnyCall ==
    /\ (rPc = "configError" \/ (rPc = "failed" /\ strategy = "config")) =>
         outbound = <<>>
    /\ rPc = "provider" => alchemyKey


----------------------------------------------------------------------------
(* Tron block resolution by range queries                                  *)

\* The target tried, in seconds, and the half-width of the search window.
TronTarget == 10000
HourSeconds == 3600

\* The block index holds blocks at some of these distances from the target
\* (seconds): outside the window, on its edges, just before, on and just after
\* the target.
Offsets == {-7200, -3601, -3600, -1, 0, 1, 3600, 3601}

RECURSIVE AscendingFrom(_)
AscendingFrom(S) ==
    IF S = {} THEN <<>>
    ELSE LET m == CHOOSE x \in S : \A y \in S : x <= y
         IN <<m>> \o AscendingFrom(S \ {m})

\* The index whose blocks lie at the offsets S: numbered from 1, oldest first,
\* with timestamps in milliseconds.
IndexAt(S, t) ==
    LET offs == AscendingFrom(S)
    IN [i \in 1..Len(offs) |-> [number |-> i, timestamp |-> (t + offs[i]) * 1000]]

BlockIndexes(t) == {IndexAt(S, t) : S \in SUBSET Offsets}

\* No start_timestamp in the query.
NoBound == -1

\* /block?sort=-timestamp&limit=1&start_timestamp=<start>&end_timestamp=<end>
BlockQuery(lo, hi) ==
    [sort |-> "-timestamp", limit |-> 1, start_timestamp |-> lo, end_timestamp |-> hi]

\* const start = (timestamp - 3600) * 1000; const end = (timestamp + 3600) * 1000
WindowQuery(t) == BlockQuery((t - HourSeconds) * 1000, (t + HourSeconds) * 1000)

\* preciseUrl: end_timestamp = timestamp * 1000 and no start_timestamp
UpperBoundQuery(t) == BlockQuery(NoBound, t * 1000)

\* What the index serves for a query: the blocks within the bounds, newest
\* first, at most limit of them.
InBounds(b, q) ==
    /\ q.start_timestamp = NoBound \/ b.timestamp >= q.start_timestamp
    /\ b.timestamp <= q.end_timestamp
Serve(index, q) ==
    LET hits == {i \in 1..Len(index) : InBounds(index[i], q)}
    IN IF hits = {} THEN <<>>
       ELSE <<index[CHOOSE i \in hits : \A j \in hits : j <= i]>>

\* The answers the index may give: data.data holding the blocks served, or, when
\* there are none, no data.data at all.
Answers(index, q) ==
    {[got |-> TRUE, present |-> TRUE, data |-> Serve(index, q)]}
      \cup (IF Serve(index, q) = <<>>
            THEN {[got |-> TRUE, present |-> FALSE, data |-> <<>>]} ELSE {})

\* !data.data || data.data.length === 0
IsEmptyAnswerAlways(d) == TRUE
IsEmptyAnswer(d) == ~d.present \/ Len(d.data) = 0

InitTronBlock ==
    /\ PostIdle
    /\ PagingIdle
    /\ FormIdle
    /\ ProfileIdle
    /\ FetchIdle
    /\ ResolverIdle
    /\ ReplayIdle
    /\ tronNetwork \in {"mainnet", "shasta"}
    /\ tronTimestamp = TronTarget
    /\ blockIndex \in BlockIndexes(tronTimestamp)
    /\ tbPc = "range"
    /\ queries = <<>>
    /\ tronData = NoAnswer
    /\ preciseData = NoAnswer
    /\ tronBlock = -1
    /\ tronError = "none"

\* The query over the window is answered: return its block, or go on to the
\* second query when it is empty.
WindowAnswers ==
    /\ tbPc = "range"
    /\ queries' = Append(queries, WindowQuery(tronTimestamp))
    /\ \E d \in Answers(blockIndex, WindowQuery(tronTimestamp)) :
         /\ tronData' = d
         /\ IF IsEmptyAnswer(d)
            THEN tbPc' = "upper" /\ tronBlock' = tronBlock
            ELSE tbPc' = "done" /\ tronBlock' = d.data[1].number
    /\ UNCHANGED <<notTronBlockVars, tronNetwork, tronTimestamp, blockIndex, preciseData,
                   tronError>>

\* fetchWithRetry throws for the query over the window.
WindowFails ==
    /\ tbPc = "range"
    /\ queries' = Append(queries, WindowQuery(tronTimestamp))
    /\ tbPc' = "failed"
    /\ tronError' = "http"
    /\ UNCHANGED <<notTronBlockVars, tronNetwork, tronTimestamp, blockIndex, tronData,
                   preciseData, tronBlock>>

\* The query with the upper bound only is answered: return its block, or throw
\* 'No Tron block found before this timestamp' when it is empty too.
UpperBoundAnswers ==
    /\ tbPc = "upper"
    /\ queries' = Append(queries, UpperBoundQuery(tronTimestamp))
    /\ \E d \in Answers(blockIndex, UpperBoundQuery(tronTimestamp)) :
         /\ preciseData' = d
         /\ IF IsEmptyAnswer(d)
            THEN tbPc' = "failed" /\ tronError' = "noBlock" /\ tronBlock' = tronBlock
            ELSE tbPc' = "done" /\ tronError' = tronError
                 /\ tronBlock' = d.data[1].number
    /\ UNCHANGED <<notTronBlockVars, tronNetwork, tronTimestamp, blockIndex, tronData>>

\* fetchWithRetry throws for the second query.
UpperBoundFails ==
    /\ tbPc = "upper"
    /\ queries' = Append(queries, UpperBoundQuery(tronTimestamp))
    /\ tbPc' = "failed"
    /\ tronError' = "http"
    /\ UNCHANGED <<notTronBlockVars, tronNetwork, tronTimestamp, blockIndex, tronData,
                   preciseData, tronBlock>>

NextTronBlock ==
    \/ WindowAnswers
    \/ WindowFails
    \/ UpperBoundAnswers
    \/ UpperBoundFails

SpecTronBlock == InitTronBlock /\ [][NextTronBlock]_vars

\* C13: the first query covers target - 1 hour .. target + 1 hour, newest first,
\* limit 1; the second query, with end_timestamp = target and no lower bound,
\* is issued if and only if the first one returned no block; the block
\* returned is the first query's when it returned one, else the second
\* query's; the resolution fails with the no-block error if and only if both
\* queries returned no block.
C13_TronTwoStepRangeQuery ==
    LET firstEmpty == tronData.got /\ tronData.data = <<>>
        firstFull == tronData.got /\ tronData.data # <<>>
        secondEmpty == preciseData.got /\ preciseData.data = <<>>
        secondFull == preciseData.got /\ preciseData.data # <<>>
    IN /\ Len(queries) <= 2
       /\ Len(queries) >= 1 =>
             queries[1] = [sort |-> "-timestamp", limit |-> 1,
                           start_timestamp |-> (tronTimestamp - 3600) * 1000,
                           end_timestamp |-> (tronTimestamp + 3600) * 1000]
       /\ Len(queries) = 2 =>
             /\ firstEmpty
             /\ queries[2] = [sort |-> "-timestamp", limit |-> 1,
                              start_timestamp |-> NoBound,
                              end_timestamp |-> tronTimestamp * 1000]
       /\ firstEmpty => (tbPc = "upper" \/ Len(queries) = 2)
       /\ firstFull => /\ tbPc = "done" /\ Len(queries) = 1
                       /\ tronBlock = tronData.data[1].number
       /\ tbPc = "done" =>
             \/ firstFull /\ tronBlock = tronData.data[1].number
             \/ firstEmpty /\ secondFull /\ tronBlock = preciseData.data[1].number
       /\ (tbPc = "failed" /\ tronError = "noBlock") <=> (firstEmpty /\ secondEmpty)

C13_Witness ==
    /\ tbPc = "done" /\ Len(queries) = 2
    /\ tronData.got /\ tronData.data = <<>>
    /\ Len(blockIndex) >= 2
    /\ tronBlock = preciseData.data[1].number

\* The tip of the index, and the timestamp (ms) of the block numbered n.
TronTip(index) == index[Len(index)]
TronBlockTime(index, n) == index[n].timestamp

\* C14: the block getTronBlockNumberByTimestamp returns has a timestamp <= the
\* target, unless the target is later than the tip of the chain, and then the
\* block returned is the tip.  (Stated for indexes that hold a block not after
\* the target.)
C14_TronBlockNotAfterTarget ==
    (tbPc = "done"
       /\ \E i \in 1..Len(blockIndex) : blockIndex[i].timestamp <= tronTimestamp * 1000) =>
        \/ TronBlockTime(blockIndex, tronBlock) <= tronTimestamp * 1000
        \/ /\ tronTimestamp * 1000 > TronTip(blockIndex).timestamp
           /\ tronBlock = TronTip(blockIndex).number


----------------------------------------------------------------------------
(* Chain profile: getChainId, getRpcUrl, getExplorerApiUrl                 *)

\* The chain and network names tried: the supported ones, a chain the route
\* does not know and a network name no chain has.
ChainNames == {"ethereum", "polygon", "bsc", "tron", "solana"}
NetworkNames == {"mainnet", "sepolia", "amoy", "testnet", "shasta", "goerli"}

\* What a function of the profile gives: a value, or the error it throws.
Returns(v) == [ok |-> TRUE, value |-> v, error |-> "none"]
Throws(e) == [ok |-> FALSE, value |-> "none", error |-> e]
NotResolved == [ok |-> FALSE, value |-> "none", error |-> "not called"]

\* getChainId(chain, network)
getChainId(c, n) ==
    IF c = "ethereum" THEN Returns(IF n = "mainnet" THEN "1" ELSE "11155111")
    ELSE IF c = "polygon" THEN Returns(IF n = "mainnet" THEN "137" ELSE "80002")
    ELSE IF c = "bsc" THEN Returns(IF n = "mainnet" THEN "56" ELSE "97")
    ELSE IF c = "tron" THEN Returns(IF n = "mainnet" THEN "mainnet" ELSE "shasta")
    ELSE Throws("Unsupported chain/network")

\* getRpcUrl(chain, network), with process.env.ALCHEMY_API_KEY set or not
getRpcUrl(c, n, key) ==
    IF c = "tron"
    THEN Returns(IF n = "shasta" THEN "https://api.shasta.trongrid.io"
                 ELSE "https://api.trongrid.io")
    ELSE IF ~key THEN Throws("Alchemy API Key missing")
    ELSE IF c = "ethereum"
    THEN Returns(IF n = "mainnet" THEN "https://eth-mainnet.g.alchemy.com/v2/"
                 ELSE "https://eth-sepolia.g.alchemy.com/v2/")
    ELSE IF c = "polygon"
    THEN Returns(IF n = "mainnet" THEN "https://polygon-mainnet.g.alchemy.com/v2/"
                 ELSE "https://polygon-amoy.g.alchemy.com/v2/")
    ELSE IF c = "bsc"
    THEN Returns(IF n = "mainnet" THEN "https://bnb-mainnet.g.alchemy.com/v2/"
                 ELSE "https://bnb-testnet.g.alchemy.com/v2/")
    ELSE Throws("Unsupported chain")

\* getExplorerApiUrl(chain, network)
getExplorerApiUrl(c, n) ==
    IF c = "tron"
    THEN Returns(IF n = "shasta" THEN "https://shastapi.tronscan.org/api"
                 ELSE "https://apilist.tronscanapi.com/api")
    ELSE IF c = "bsc"
    THEN Returns(IF n = "testnet" THEN "https://api-testnet.bscscan.com/api"
                 ELSE "https://api.bscscan.com/api")
    ELSE Returns("https://api.etherscan.io/v2/api")

InitProfile ==
    /\ PostIdle
    /\ PagingIdle
    /\ FormIdle
    /\ FetchIdle
    /\ ResolverIdle
    /\ ReplayIdle
    /\ TronBlockIdle
    /\ pChain \in ChainNames
    /\ pNetwork \in NetworkNames
    /\ pKey \in BOOLEAN
    /\ chainId = NotResolved
    /\ rpcUrl = NotResolved
    /\ baseUrl = NotResolved

\* The three functions are applied to the pair, in any order.
ResolveChainId ==
    /\ chainId = NotResolved
    /\ chainId' = getChainId(pChain, pNetwork)
    /\ UNCHANGED <<notProfileVars, pChain, pNetwork, pKey, rpcUrl, baseUrl>>

ResolveRpcUrl ==
    /\ rpcUrl = NotResolved
    /\ rpcUrl' = getRpcUrl(pChain, pNetwork, pKey)
    /\ UNCHANGED <<notProfileVars, pChain, pNetwork, pKey, chainId, baseUrl>>

ResolveExplorerApiUrl ==
    /\ baseUrl = NotResolved
    /\ baseUrl' = getExplorerApiUrl(pChain, pNetwork)
    /\ UNCHANGED <<notProfileVars, pChain, pNetwork, pKey, chainId, rpcUrl>>

NextProfile ==
    \/ ResolveChainId
    \/ ResolveRpcUrl
    \/ ResolveExplorerApiUrl

SpecProfile == InitProfile /\ [][NextProfile]_vars

\* The supported matrix, and what each pair's profile is to hold: the chain id
\* of the network, and endpoints that serve it (the Etherscan V2 endpoint
\* serves every ethereum and polygon network, chosen by chain id).
Supported ==
    {<<"ethereum", "mainnet">>, <<"ethereum", "sepolia">>,
     <<"polygon", "mainnet">>, <<"polygon", "amoy">>,
     <<"bsc", "mainnet">>, <<"bsc", "testnet">>,
     <<"tron", "mainnet">>, <<"tron", "shasta">>}
ProfileOf(pair) ==
    CASE pair = <<"ethereum", "mainnet">> ->
           <<"1", "https://eth-mainnet.g.alchemy.com/v2/", "https://api.etherscan.io/v2/api">>
      [] pair = <<"ethereum", "sepolia">> ->
           <<"11155111", "https://eth-sepolia.g.alchemy.com/v2/", "https://api.etherscan.io/v2/api">>
      [] pair = <<"polygon", "mainnet">> ->
           <<"137", "https://polygon-mainnet.g.alchemy.com/v2/", "https://api.etherscan.io/v2/api">>
      [] pair = <<"polygon", "amoy">> ->
           <<"80002", "https://polygon-amoy.g.alchemy.com/v2/", "https://api.etherscan.io/v2/api">>
      [] pair = <<"bsc", "mainnet">> ->
           <<"56", "https://bnb-mainnet.g.alchemy.com/v2/", "https://api.bscscan.com/api">>
      [] pair = <<"bsc", "testnet">> ->
           <<"97", "https://bnb-testnet.g.alchemy.com/v2/", "https://api-testnet.bscscan.com/api">>
      [] pair = <<"tron", "mainnet">> ->
           <<"mainnet", "https://api.trongrid.io", "https://apilist.tronscanapi.com/api">>
      [] pair = <<"tron", "shasta">> ->
           <<"shasta", "https://api.shasta.trongrid.io", "https://shastapi.tronscan.org/api">>

\* C15: for a (chain, network) pair outside the supported matrix (an unknown
\* chain, or a supported chain with a network name it does not have) each of
\* getChainId, getRpcUrl and getExplorerApiUrl fails and returns no chain id
\* and no endpoint; for a supported pair (the RPC key being set) they return
\* the chain id and the endpoints of that pair's network.
C15_ProfileOnlyForSupportedPairs ==
    /\ <<pChain, pNetwork>> \notin Supported =>
         /\ ~chainId.ok
         /\ ~rpcUrl.ok
         /\ ~baseUrl.ok
    /\ (<<pChain, pNetwork>> \in Supported /\ (pKey \/ pChain = "tron")) =>
         /\ chainId # NotResolved => chainId = Returns(ProfileOf(<<pChain, pNetwork>>)[1])
         /\ rpcUrl # NotResolved => rpcUrl = Returns(ProfileOf(<<pChain, pNetwork>>)[2])
         /\ baseUrl # NotResolved => baseUrl = Returns(ProfileOf(<<pChain, pNetwork>>)[3])


----------------------------------------------------------------------------
(* JavaScript Number arithmetic on integers (IEEE 754 binary64)            *)

\* Exact integer arithmetic on h * 2^53 + l.
NumPlus(x, y) == Num(x.h + y.h, x.l + y.l)
NumMinus(x, y) == Num(x.h - y.h, x.l - y.l)
NumNeg(x) == Num(-x.h, -x.l)
NumIsNegative(x) == x.h < 0 \/ (x.h = 0 /\ x.l < 0)

RECURSIVE Pow2(_)
Pow2(e) == IF e = 0 THEN 1 ELSE 2 * Pow2(e - 1)
RECURSIVE Log2Floor(_)
Log2Floor(n) == IF n <= 1 THEN 0 ELSE 1 + Log2Floor(n \div 2)

\* Spacing of the doubles around h * 2^53 + l, for h >= 1: 2^(e+1) in the
\* binade [2^(53+e), 2^(54+e)) the value lies in.
Spacing(x) ==
    IF x.l < 0 /\ x.h = Pow2(Log2Floor(x.h))
    THEN Pow2(Log2Floor(x.h))
    ELSE 2 * Pow2(Log2Floor(x.h))

\* l rounded to a multiple of u, to nearest, ties to the even multiple.
RoundTiesToEven(l, u) ==
    LET q == l \div u
        r == l % u
    IN IF 2 * r < u THEN q * u
       ELSE IF 2 * r > u THEN (q + 1) * u
       ELSE IF q % 2 = 0 THEN q * u ELSE (q + 1) * u

ToDoublePositive(x) ==
    IF x.h = 0 THEN x ELSE Num(x.h, RoundTiesToEven(x.l, Spacing(x)))

\* The double nearest to the integer x (round to nearest, ties to even):
\* integers of magnitude up to 2^53 are exact, larger ones lose their low bits.
ToDouble(x) ==
    IF NumIsNegative(x) THEN NumNeg(ToDoublePositive(NumNeg(x))) ELSE ToDoublePositive(x)

\* a + b and a - b on Numbers: the exact result, rounded once.
JsAdd(a, b) == ToDouble(NumPlus(a, b))
JsSub(a, b) == ToDouble(NumMinus(a, b))

\* parseInt(text) / parseFloat(text) of a decimal integer.
ParseNumber(text) == ToDouble(text)


----------------------------------------------------------------------------
(* Tron addresses                                                          *)

\* The Base58Check string of an account: decodes to the 0x41 prefix byte, the 20
\* address bytes and 4 checksum bytes; it starts with 'T'.
Base58Address(acct) ==
    [enc |-> "base58", ox |-> FALSE, upper |-> FALSE, digits |-> <<"41", acct, "checksum">>]
\* The hex string with the 41 prefix: "41...", in lower or upper case letters.
HexAddress(acct, up) ==
    [enc |-> "hex", ox |-> FALSE, upper |-> up, digits |-> <<"41", acct>>]
\* The same with a leading 0x: "0x41...".
Hex0x41Address(acct) ==
    [enc |-> "hex", ox |-> TRUE, upper |-> FALSE, digits |-> <<"41", acct>>]
\* 0x and the 20 address bytes alone: "0x...".
Hex0xAddress(acct) ==
    [enc |-> "hex", ox |-> TRUE, upper |-> FALSE, digits |-> <<acct>>]

\* The forms of one account's address.
AddressForms(acct) ==
    {Base58Address(acct), HexAddress(acct, FALSE), HexAddress(acct, TRUE),
     Hex0x41Address(acct), Hex0xAddress(acct)}

\* The account an address string of one of these forms names.
AccountOf(a) == IF a.enc = "base58" THEN a.digits[2] ELSE a.digits[Len(a.digits)]

StartsWith0x(a) == a.enc = "hex" /\ a.ox
StartsWithT(a) == a.enc = "base58"

\* bytes.slice(0, -4)
DropChecksum(bytes) == SubSeq(bytes, 1, Len(bytes) - 1)

\* toTronHex(address)
toTronHex(a) ==
    IF StartsWith0x(a)
    THEN [enc |-> "hex", ox |-> FALSE, upper |-> a.upper, digits |-> <<"41">> \o a.digits]
    ELSE IF StartsWithT(a)
    THEN [enc |-> "hex", ox |-> FALSE, upper |-> FALSE, digits |-> DropChecksum(a.digits)]
    ELSE a

\* String.prototype.toLowerCase() on a hex string.
toLowerCase(a) == [a EXCEPT !.upper = FALSE]

\* toTronHex(x).toLowerCase(), the key the native replay compares.
CanonicalKey(a) == toLowerCase(toTronHex(a))


----------------------------------------------------------------------------
(* Tron ledger replay                                                      *)

\* Length of the event histories tried, and the target time of the replay.
MaxEvents == 3
ReplayTarget == 2

\* Page size and safety caps of the pagination loops.
limit == 50
NativeCap == 10000
TokenCap == 5000

\* 2^53 and 2^53 + 1 minor units.
Big == Num(1, 0)
BigPlusOne == Num(1, 1)

\* The account queried and another account, as the explorer writes them.
Queried == Base58Address("a")
Other == Base58Address("b")

\* A transaction of the explorer's /transaction listing.
NativeTx(ts, ret, type, owner, to, amt, fee) ==
    [timestamp |-> ts, contractRet |-> ret, contractType |-> type,
     ownerAddress |-> owner, toAddress |-> to, amount |-> Num(0, amt), fee |-> Num(0, fee)]

\* A transfer of the explorer's /token_trc20/transfers listing.
TokenTransfer(ts, from, to, quant) ==
    [block_ts |-> ts, from_address |-> from, to_address |-> to, quant |-> quant]

\* The transactions the histories are drawn from: received before, at and after
\* the target, sent with a fee, sent to oneself, failed, not a TransferContract,
\* and between other accounts.
NativePool ==
    {NativeTx(ReplayTarget - 1, "SUCCESS", 1, Other, Queried, 5, 1),
     NativeTx(ReplayTarget, "SUCCESS", 1, Other, Queried, 3, 0),
     NativeTx(ReplayTarget + 1, "SUCCESS", 1, Other, Queried, 7, 1),
     NativeTx(ReplayTarget - 1, "SUCCESS", 1, Queried, Other, 2, 1),
     NativeTx(ReplayTarget, "SUCCESS", 1, Queried, Queried, 4, 1),
     NativeTx(ReplayTarget - 1, "REVERT", 1, Other, Queried, 9, 1),
     NativeTx(ReplayTarget - 1, "SUCCESS", 31, Queried, Other, 0, 1),
     NativeTx(ReplayTarget - 1, "SUCCESS", 1, Other, Other, 6, 1)}

\* The token transfers the histories are drawn from.
TokenPool ==
    {TokenTransfer(ReplayTarget, Other, Queried, Big),
     TokenTransfer(ReplayTarget, Other, Queried, Num(0, 1)),
     TokenTransfer(ReplayTarget - 1, Other, Queried, BigPlusOne),
     TokenTransfer(ReplayTarget + 1, Other, Queried, Num(0, 5)),
     TokenTransfer(ReplayTarget - 1, Queried, Other, Num(0, 1)),
     TokenTransfer(ReplayTarget, Queried, Queried, Num(0, 2)),
     TokenTransfer(ReplayTarget - 1, Other, Other, Num(0, 6))}

Pool(k) == IF k = "native" THEN NativePool ELSE TokenPool
Histories(k) == UNION {[1..n -> Pool(k)] : n \in 0..MaxEvents}

\* The safety cap of each pagination loop.
Cap(k) == IF k = "native" THEN NativeCap ELSE TokenCap

\* Histories of more than one page, and histories that reach the cap: one
\* event received before the target, many times over.
BulkEvent(k) ==
    IF k = "native" THEN NativeTx(ReplayTarget - 1, "SUCCESS", 1, Other, Queried, 5, 1)
    ELSE TokenTransfer(ReplayTarget - 1, Other, Queried, Num(0, 5))
LongLengths(k) == {limit + 1, 2 * limit + 1, Cap(k) - 1, Cap(k), Cap(k) + 1}
LongHistories(k) == {[i \in 1..n |-> BulkEvent(k)] : n \in LongLengths(k)}

\* The errors fetchWithRetry throws for a page: an error status, no response
\* (0), or 429 once the retries are used up.
PageErrors == (FinalStatuses \ {200}) \cup {HTTP_TOO_MANY}

\* catch (e) { ...; throw new Error('Failed to fetch transactions: ...') }
AfterPageFailureSwallowed == "sorting"
AfterPageFailure == "failed"

\* if (allTransactions.length >= 10000) { console.warn(...); hasMore = false; }
CapReachedNever(k, n) == FALSE
CapReachedAbove(k, n) == n > Cap(k)
CapReached(k, n) == n >= Cap(k)

\* The page the explorer serves at offset st (limit=50&start=st).
Page(h, st) ==
    SubSeq(h, st + 1, IF st + limit < Len(h) THEN st + limit ELSE Len(h))

\* tx.timestamp (native) / tx.block_ts (token)
TimeOf(e) == IF "timestamp" \in DOMAIN e THEN e.timestamp ELSE e.block_ts

\* Array.prototype.sort with (a, b) => a.timestamp - b.timestamp, a stable sort:
\* the events of the earliest time in the order they have, then those of the
\* next time, and so on.
TimesOf(txs) == {TimeOf(txs[i]) : i \in 1..Len(txs)}
RECURSIVE SortFrom(_, _)
SortFrom(txs, times) ==
    IF times = {} THEN <<>>
    ELSE LET t == CHOOSE x \in times : \A y \in times : x <= y
         IN SelectSeq(txs, LAMBDA e : TimeOf(e) = t) \o SortFrom(txs, times \ {t})
SortByTime(txs) == SortFrom(txs, TimesOf(txs))

\* filter(tx => tx.timestamp <= targetTimestamp)
IsRelevant(e, target) == TimeOf(e) <= target
FilterRelevant(txs, target) == SelectSeq(txs, LAMBDA e : IsRelevant(e, target))

\* One iteration of the native replay loop.
ApplyNativeTx(bal, tx, key) ==
    IF tx.contractRet # "SUCCESS" THEN bal
    ELSE IF tx.contractType = 1
    THEN LET ownerHex == CanonicalKey(tx.ownerAddress)
             toHex == CanonicalKey(tx.toAddress)
             amount == ParseNumber(tx.amount)
             fee == ParseNumber(tx.fee)
         IN IF toHex = key THEN JsAdd(bal, amount)
            ELSE IF ownerHex = key THEN JsSub(JsSub(bal, amount), fee)
            ELSE bal
    ELSE bal

\* One iteration of the token replay loop.
ApplyTokenTransfer(bal, tx, addr) ==
    LET amount == ParseNumber(tx.quant)
    IN IF tx.to_address = addr THEN JsAdd(bal, amount)
       ELSE IF tx.from_address = addr THEN JsSub(bal, amount)
       ELSE bal

\* The address the loop compares the events' addresses with.
CompareKey(k, addr) == IF k = "native" THEN CanonicalKey(addr) ELSE addr

\* The loop over txs[lo..hi], entered with the balance bal: the first half of
\* the range, then the second half from the balance the first one leaves (the
\* membership test has the balance of the first half computed before the
\* second half is entered).
RECURSIVE ReplayFrom(_, _, _, _, _, _)
ReplayFrom(k, txs, lo, hi, bal, key) ==
    IF lo > hi THEN bal
    ELSE IF lo = hi
    THEN (IF k = "native" THEN ApplyNativeTx(bal, txs[lo], key)
          ELSE ApplyTokenTransfer(bal, txs[lo], key))
    ELSE LET mid == (lo + hi) \div 2
             left == ReplayFrom(k, txs, lo, mid, bal, key)
         IN IF left \in {left} THEN ReplayFrom(k, txs, mid + 1, hi, left, key) ELSE left
\* let balance = 0; for (const tx of relevantTxs) { ... }
Replay(k, txs, addr) == ReplayFrom(k, txs, 1, Len(txs), Zero, CompareKey(k, addr))

\* The balance the function returns once it has fetched the events txs.
ReplayFetched(k, txs, addr, target) ==
    Replay(k, FilterRelevant(SortByTime(txs), target), addr)

InitReplay ==
    /\ PostIdle
    /\ PagingIdle
    /\ FormIdle
    /\ ProfileIdle
    /\ FetchIdle
    /\ ResolverIdle
    /\ TronBlockIdle
    /\ kind \in {"native", "token"}
    /\ address \in AddressForms("a")
    /\ history \in Histories(kind) \cup LongHistories(kind)
    /\ Len(history) > MaxEvents => address = Queried
    /\ targetTimestamp = ReplayTarget
    /\ rpPc = "paginating"
    /\ start = 0
    /\ requested = <<>>
    /\ allTransactions = <<>>
    /\ relevantTxs = <<>>
    /\ hexAddress = NoAddress
    /\ balance = Zero
    /\ pageError = -1

\* A page arrives: an empty one ends the loop; another is appended, the offset
\* advances, and the loop ends once the cap is reached.
PageArrives ==
    /\ rpPc = "paginating"
    /\ requested' = Append(requested, start)
    /\ LET data == Page(history, start) IN
         IF Len(data) = 0
         THEN /\ rpPc' = "sorting"
              /\ UNCHANGED <<allTransactions, start>>
         ELSE /\ allTransactions' = allTransactions \o data
              /\ start' = start + limit
              /\ rpPc' = IF CapReached(kind, Len(allTransactions \o data))
                         THEN "sorting" ELSE "paginating"
    /\ UNCHANGED <<notReplayVars, kind, address, history, targetTimestamp, relevantTxs,
                   hexAddress, balance, pageError>>

\* fetchWithRetry throws for a page: the catch clause rethrows
\* 'Failed to fetch transactions' and the replay ends.
PageFails ==
    /\ rpPc = "paginating"
    /\ requested' = Append(requested, start)
    /\ pageError' \in PageErrors
    /\ rpPc' = AfterPageFailure
    /\ UNCHANGED <<notReplayVars, kind, address, history, targetTimestamp, start,
                   allTransactions, relevantTxs, hexAddress, balance>>

\* allTransactions.sort(...)
Sort ==
    /\ rpPc = "sorting"
    /\ allTransactions' = SortByTime(allTransactions)
    /\ rpPc' = "filtering"
    /\ UNCHANGED <<notReplayVars, kind, address, history, targetTimestamp, start,
                   requested, relevantTxs, hexAddress, balance, pageError>>

\* const relevantTxs = allTransactions.filter(...)
Filter ==
    /\ rpPc = "filtering"
    /\ relevantTxs' = FilterRelevant(allTransactions, targetTimestamp)
    /\ rpPc' = "accumulating"
    /\ UNCHANGED <<notReplayVars, kind, address, history, targetTimestamp, start,
                   requested, allTransactions, hexAddress, balance, pageError>>

\* The replay loop and the return of the balance.
Accumulate ==
    /\ rpPc = "accumulating"
    /\ hexAddress' = IF kind = "native" THEN CanonicalKey(address) ELSE hexAddress
    /\ balance' = Replay(kind, relevantTxs, address)
    /\ rpPc' = "done"
    /\ UNCHANGED <<notReplayVars, kind, address, history, targetTimestamp, start,
                   requested, allTransactions, relevantTxs, pageError>>

NextReplay ==
    \/ PageArrives
    \/ PageFails
    \/ Sort
    \/ Filter
    \/ Accumulate

SpecReplay == InitReplay /\ [][NextReplay]_vars


\* The exact sums the replay is to return: amount of each successful native
\* transfer up to the target received by the account, less amount + fee of each
\* one it sent (a transfer from the account to itself is on both sides).
IsCountedTransfer(tx, target) ==
    tx.contractRet = "SUCCESS" /\ tx.contractType = 1 /\ tx.timestamp <= target
Credit(tx, acct, target) ==
    IF IsCountedTransfer(tx, target) /\ AccountOf(tx.toAddress) = acct
    THEN tx.amount ELSE Zero
Debit(tx, acct, target) ==
    IF IsCountedTransfer(tx, target) /\ AccountOf(tx.ownerAddress) = acct
    THEN NumPlus(tx.amount, tx.fee) ELSE Zero
RECURSIVE NetOfTransfers(_, _, _, _)
NetOfTransfers(txs, i, acct, target) ==
    IF i > Len(txs) THEN Zero
    ELSE NumPlus(NumMinus(Credit(txs[i], acct, target), Debit(txs[i], acct, target)),
                 NetOfTransfers(txs, i + 1, acct, target))

\* C5: the native replay returns, for every fetched history, the sum of amount
\* over the SUCCESS transfers up to the target (the target included) received
\* by the query address, minus the sum of amount + fee over those it sent, a
\* transfer from the address to itself counting on both sides.  (Stated for a
\* query address in Base58 form.)
C5_NativeBalanceIsNetOfTransfers ==
    (rpPc = "done" /\ kind = "native" /\ address = Base58Address(AccountOf(address))) =>
        balance = NetOfTransfers(allTransactions, 1, AccountOf(address), targetTimestamp)

\* C6: the hex form of a Tron address with the 41 prefix, with or without a
\* leading 0x, normalises to the same canonical key as the Base58Check form of
\* the same address.
C6_HexAndBase58SameKey ==
    (rpPc = "done" /\ kind = "native"
       /\ address \in {HexAddress(AccountOf(address), FALSE),
                       HexAddress(AccountOf(address), TRUE),
                       Hex0x41Address(AccountOf(address))}) =>
        hexAddress = CanonicalKey(Base58Address(AccountOf(address)))

\* C7: in the native and in the token replay, a query that gives the address
\* in hex form (41 prefix) returns the balance that the query giving the same
\* address in Base58 form returns for the same events.
C7_HexQuerySameBalanceAsBase58 ==
    (rpPc = "done"
       /\ address \in {HexAddress(AccountOf(address), FALSE),
                       HexAddress(AccountOf(address), TRUE)}) =>
        balance = ReplayFetched(kind, allTransactions,
                                Base58Address(AccountOf(address)), targetTimestamp)

\* The orders in which the events txs can be fetched.
Reorderings(txs) ==
    {[i \in 1..Len(txs) |-> txs[f[i]]] :
        f \in {g \in [1..Len(txs) -> 1..Len(txs)] :
                 \A i, j \in 1..Len(txs) : g[i] = g[j] => i = j}}

\* C8: the balance returned does not depend on the order in which the events
\* were fetched: every reordering of the fetched events replays to the balance
\* returned.  (Stated for the histories of up to MaxEvents events.)
C8_BalanceIndependentOfFetchOrder ==
    (rpPc = "done" /\ Len(history) <= MaxEvents) =>
        \A p \in Reorderings(history) :
            ReplayFetched(kind, p, address, targetTimestamp) = balance

\* The exact net of the token transfers up to the target: the quantity of each
\* one received by the account, less the quantity of each one it sent.
TokenCredit(tx, acct, target) ==
    IF tx.block_ts <= target /\ AccountOf(tx.to_address) = acct THEN tx.quant ELSE Zero
TokenDebit(tx, acct, target) ==
    IF tx.block_ts <= target /\ AccountOf(tx.from_address) = acct THEN tx.quant ELSE Zero
RECURSIVE NetOfTokenTransfers(_, _, _, _)
NetOfTokenTransfers(txs, i, acct, target) ==
    IF i > Len(txs) THEN Zero
    ELSE NumPlus(NumMinus(TokenCredit(txs[i], acct, target),
                          TokenDebit(txs[i], acct, target)),
                 NetOfTokenTransfers(txs, i + 1, acct, target))

\* C22: the token replay returns the sum of the quantities of the transfers up
\* to the target (the target included) received by the query address, minus
\* the sum of the quantities of those it sent: no fee is debited and a transfer
\* after the target changes nothing.  (Stated for a query address in Base58
\* form.)
C22_TokenBalanceIsNetOfTransfers ==
    (rpPc = "done" /\ kind = "token" /\ address = Base58Address(AccountOf(address))) =>
        balance = NetOfTokenTransfers(allTransactions, 1, AccountOf(address),
                                      targetTimestamp)

\* The stage that may follow each stage of a replay.
StageOrder ==
    {<<"paginating", "sorting">>, <<"paginating", "failed">>,
     <<"sorting", "filtering">>, <<"filtering", "accumulating">>,
     <<"accumulating", "done">>}

\* C19: the replay moves from stage to stage only in the order paginating,
\* sorting, filtering, accumulating, done (so each stage is entered once and
\* none is returned to), and once a page request has ended with an HTTP error
\* the replay has failed for good: nothing was sorted, filtered or accumulated
\* after it, and no balance is computed.
C19_StagesInOrderAndAbortOnPageError ==
    /\ [][rpPc' # rpPc => <<rpPc, rpPc'>> \in StageOrder]_vars
    /\ [](pageError # -1 =>
            /\ rpPc = "failed"
            /\ relevantTxs = <<>>
            /\ hexAddress = NoAddress
            /\ balance = Zero)

\* A page request fails with status 500 after a page of events had arrived.
C19_Witness ==
    rpPc = "failed" /\ pageError = 500 /\ Len(requested) = 2 /\ allTransactions # <<>>

\* The number of events fetched once n pages have been requested with success.
FetchedAfter(n) == IF n * 50 < Len(history) THEN n * 50 ELSE Len(history)

\* C20: the pages are requested at the offsets 0, 50, 100, ... in turn; a
\* further page is requested only while every page so far came back with
\* events and fewer events than the cap (10,000 native, 5,000 token) were
\* fetched; the loop is left without an error only when the last page was
\* empty or the cap was reached, and a replay fails only on a page error, so
\* after the cap the events fetched are sorted, filtered and accumulated into
\* the balance returned.
C20_PagesInTurnUntilEmptyOrCap ==
    LET n == Len(requested)
        cap == IF kind = "native" THEN 10000 ELSE 5000
    IN /\ \A i \in 1..n : requested[i] = (i - 1) * 50
       /\ \A i \in 1..(n - 1) : requested[i] < Len(history) /\ FetchedAfter(i) < cap
       /\ rpPc = "paginating" /\ n > 0 =>
              requested[n] < Len(history) /\ FetchedAfter(n) < cap
       /\ rpPc \in {"sorting", "filtering", "accumulating", "done"} =>
              /\ n > 0
              /\ requested[n] >= Len(history) \/ FetchedAfter(n) >= cap
              /\ Len(allTransactions) = FetchedAfter(n)
       /\ rpPc = "failed" => pageError # -1
       /\ rpPc = "done" =>
              balance = ReplayFetched(kind, SubSeq(history, 1, FetchedAfter(n)),
                                      address, targetTimestamp)

\* A replay that stopped at the cap with events left unfetched and returned
\* the balance of the events it fetched.
C20_Witness ==
    /\ rpPc = "done"
    /\ Len(allTransactions) = Cap(kind)
    /\ Len(history) > Cap(kind)
    /\ requested[Len(requested)] = Cap(kind) - limit
    /\ balance = Num(0, 5 * Cap(kind))

----------------------------------------------------------------------------
(* The pagination loop, for explorers that serve pages of any size         *)

\* Events on the pages the explorer serves: one, one fewer than asked for, or
\* as many as asked for (limit).
PageSizes == {1, limit - 1, limit}

\* Events the explorer has for the address: none, a few pages, or more than
\* the loop ever fetches (no page of such an explorer is empty).
Availabilities == {0, 2 * limit + 1, 2 * NativeCap}

\* data.data.length of the page served after n events were served.
ServedLength(n) ==
    IF available - n < pageSize THEN available - n ELSE pageSize

InitPaging ==
    /\ FormIdle
    /\ FetchIdle
    /\ ResolverIdle
    /\ ReplayIdle
    /\ TronBlockIdle
    /\ ProfileIdle
    /\ PostIdle
    /\ pgKind \in {"native", "token"}
    /\ pageSize \in PageSizes
    /\ available \in Availabilities
    /\ pgPc = "paginating"
    /\ pgStart = 0
    /\ pgLength = 0
    /\ pgRequests = 0

\* One iteration of while (hasMore) whose request is answered: an empty page
\* breaks the loop; another is pushed, start advances by limit, and hasMore is
\* cleared once the cap is reached.
PageServed ==
    /\ pgPc = "paginating"
    /\ pgRequests' = pgRequests + 1
    /\ LET length == ServedLength(pgLength) IN
         IF length = 0
         THEN /\ pgPc' = "fetched"
              /\ UNCHANGED <<pgLength, pgStart>>
         ELSE /\ pgLength' = pgLength + length
              /\ pgStart' = pgStart + limit
              /\ pgPc' = IF CapReached(pgKind, pgLength + length)
                         THEN "fetched" ELSE "paginating"
    /\ UNCHANGED <<notPagingVars, pgKind, pageSize, available>>

\* One iteration whose request throws: the catch clause rethrows.
PageRequestFails ==
    /\ pgPc = "paginating"
    /\ pgRequests' = pgRequests + 1
    /\ pgPc' = AfterPageFailure
    /\ UNCHANGED <<notPagingVars, pgKind, pageSize, available, pgStart, pgLength>>

NextPaging == PageServed \/ PageRequestFails

SpecPaging == InitPaging /\ [][NextPaging]_vars

\* Every page request is answered in the end.
SpecPagingFair == SpecPaging /\ WF_vars(NextPaging)

\* The cap of the loop under way: 10,000 events native, 5,000 token.
ClaimedCap == IF pgKind = "native" THEN 10000 ELSE 5000

\* C26: the loop makes at most as many page requests as the cap (10,000
\* native, 5,000 token), whatever the explorer serves: every page that keeps
\* the loop going has added at least one event, and the loop is left in the
\* end, with the events fetched or with the error of a page.
C26_PaginationTerminates ==
    /\ [](pgRequests <= ClaimedCap)
    /\ [](pgPc = "paginating" => pgLength >= pgRequests /\ pgLength < ClaimedCap)
    /\ [][pgPc' = "paginating" => pgLength' > pgLength]_vars
    /\ <>(pgPc \in {"fetched", "failed"})

\* An explorer that never serves an empty page, one event per page: the loop
\* is left after as many requests as the cap.
C26_Witness ==
    /\ pgKind = "native" /\ pageSize = 1 /\ available > NativeCap
    /\ pgPc = "fetched" /\ pgRequests = NativeCap /\ pgLength = NativeCap

\* C27: at every moment of a replay, whatever the size (1 to 50) of the pages,
\* the number of events accumulated does not exceed the cap.
C27_NeverMoreThanCap ==
    pgLength <= ClaimedCap

----------------------------------------------------------------------------
(* The search window of the bsc binary search                              *)

\* The window the loop starts from, as the code leaves it after sampling the
\* two endpoints.
InitialWidth ==
    IF OutsideWindow(GetBlock(ledger, WindowMin(latestBlock, timestamp)),
                     GetBlock(ledger, WindowMax(latestBlock, timestamp)), timestamp)
    THEN latestBlock.number + 1
    ELSE WindowMax(latestBlock, timestamp) - WindowMin(latestBlock, timestamp) + 1

\* C24: with est = max(0, tip.number - floor((tip.timestamp - target) / 3)),
\* the window first set is [max(0, est - 100000), min(tip.number, est + 100000)];
\* when the loop starts the window either satisfies 0 <= min <= max <=
\* tip.number with timestamp(min) <= target <= timestamp(max), or is exactly
\* [0, tip.number]; every block number fetched lies in [0, tip.number], and so
\* does the block number returned.
C24_SearchWindowInvariant ==
    LET tip == latestBlock.number
        diff == (latestBlock.timestamp - timestamp) \div 3
        est == IF tip - diff > 0 THEN tip - diff ELSE 0
        lo == IF est - 100000 > 0 THEN est - 100000 ELSE 0
        hi == IF est + 100000 < tip THEN est + 100000 ELSE tip
    IN /\ rPc \in {"minBlock", "maxBlock"} => min = lo /\ max = hi
       /\ (rPc = "loop" /\ midFetches = 0) =>
             \/ /\ 0 <= min /\ min <= max /\ max <= tip
                /\ BlockTime(ledger, min) <= timestamp
                /\ timestamp <= BlockTime(ledger, max)
             \/ min = 0 /\ max = tip
       /\ fetched # {} => \A n \in fetched : 0 <= n /\ n <= tip
       /\ (rPc = "done" /\ strategy \in {"tip", "search"}) =>
             0 <= blockNumber /\ blockNumber <= tip

\* A search whose estimate window [1, tip] did not hold the target (block 1 is
\* already after it) and was widened to [0, tip].
C24_Witness ==
    /\ rPc = "loop" /\ midFetches = 0
    /\ WindowMin(latestBlock, timestamp) > 0
    /\ min = 0 /\ max = latestBlock.number /\ max > WindowRadius

\* C25: each iteration of the loop makes the width max - min + 1 of the window
\* smaller, the loop is left once the bounds have crossed, the k-th midpoint
\* is fetched only when 2^(k-1) <= W, W being the width the loop started
\* with (so at most floor(log2(W)) + 1 midpoints are fetched), and a search
\* that has entered the loop ends.
C25_SearchTerminates ==
    /\ [][(rPc = "loop" /\ rPc' = "loop") => max' - min' + 1 < max - min + 1]_vars
    /\ [][(rPc = "loop" /\ rPc' = "done") => min > max]_vars
    /\ [](midFetches > 0 => 2^(midFetches - 1) <= InitialWidth)
    /\ [](rPc = "loop" => max - min + 1 >= 0)
    /\ (rPc = "loop" ~> rPc \in {"done", "failed"})

\* A search over a window of more than 100,000 blocks that has returned.
C25_Witness ==
    /\ rPc = "done" /\ strategy = "search"
    /\ InitialWidth > WindowRadius /\ midFetches >= 17

----------------------------------------------------------------------------
(* POST: the balance, its symbol and its display amount                    *)

\* Raw balances tried (minor units).
RawBalances == {0, 5, 1500000}

\* JavaScript values of the metadata fields.
Undefined == [t |-> "undefined"]
Number(n) == [t |-> "number", n |-> n]
String(s) == [t |-> "string", s |-> s]

\* ToBoolean of such a value.
Truthy(v) ==
    \/ v.t = "number" /\ v.n # 0
    \/ v.t = "string" /\ v.s # ""

\* a || b
OrElse(a, b) == IF Truthy(a) THEN a ELSE b

\* let symbol = 'ETH'; polygon: 'MATIC'; bsc: 'BNB'; tron: 'TRX'
DefaultSymbol(c) ==
    IF c = "tron" THEN "TRX"
    ELSE IF c = "bsc" THEN "BNB"
    ELSE IF c = "polygon" THEN "MATIC"
    ELSE "ETH"

\* A display amount, units / 10^e, in lowest terms: the quotient as a decimal
\* number (1500000 / 10^6 and 15 / 10 are the same amount, 1.5).
RECURSIVE Divided(_, _)
Divided(units, e) ==
    IF units = 0 THEN [units |-> 0, pow10 |-> 0]
    ELSE IF e > 0 /\ units % 10 = 0 THEN Divided(units \div 10, e - 1)
    ELSE [units |-> units, pow10 |-> e]
NoAmount == [units |-> 0, pow10 |-> -1]

\* ethers.formatUnits(value, decimals) and ethers.formatEther(value)
formatUnits(value, d) == Divided(value, d)
formatEther(value) == formatUnits(value, 18)

\* What contract.decimals() and contract.symbol() give: a value, or a revert.
Reverted == [t |-> "reverted"]
DecimalsOutcomes == {Reverted, Number(0), Number(6), Number(18)}
SymbolOutcomes == {Reverted, String("USDT")}

\* What getTronTokenInfo gives: null (the request failed, or the explorer
\* knows no such token), or data.trc20_tokens[0].
Null == [t |-> "null"]
Trc20Token(d, s) == [t |-> "object", decimals |-> d, symbol |-> s]
TokenInfos ==
    {Null} \cup {Trc20Token(d, s) : d \in {Undefined, Number(0), Number(6), Number(18)},
                                    s \in {Undefined, String("USDT")}}

\* The block numbers the resolver may return.
MaxBlock == 1
Blocks == 0..MaxBlock

\* if (!address || !date)
MissingBoth(a, d) == ~a /\ ~d
Missing(a, d) == ~a \/ ~d

\* { blockTag: blockNumber } / provider.getBalance(address, blockNumber)
BlockTagLatest(n) == MaxBlock
BlockTag(n) == n

\* NextResponse.json({ ..., blockNumber, balance, symbol, rawBalance })
Success(n, amount, s, raw) ==
    [status |-> 200, blockNumber |-> n, balance |-> amount, symbol |-> s,
     rawBalance |-> raw]
\* NextResponse.json({ error }, { status })
ErrorResponse(status, message) == [status |-> status, error |-> message]

InitPost ==
    /\ PagingIdle
    /\ FormIdle
    /\ FetchIdle
    /\ ResolverIdle
    /\ ReplayIdle
    /\ TronBlockIdle
    /\ ProfileIdle
    /\ qChain \in {"ethereum", "polygon", "bsc", "tron"}
    /\ tokenAddress \in BOOLEAN
    /\ bodyOk \in BOOLEAN
    /\ hasAddress \in BOOLEAN
    /\ hasDate \in BOOLEAN
    /\ bodyOk = FALSE => hasAddress /\ hasDate
    /\ qKey \in BOOLEAN
    /\ held \in RawBalances
    /\ stateAt \in [Blocks -> RawBalances]
    /\ qChain = "tron" => stateAt = [b \in Blocks |-> 0]
    /\ qChain # "tron" => held = 0
    /\ qPc = "body"
    /\ symbol = DefaultSymbol(qChain)
    /\ tokenInfo = Undefined
    /\ dec = Undefined
    /\ sym = Undefined
    /\ decimals = Undefined
    /\ rawBalance = -1
    /\ balanceFormatted = NoAmount
    /\ qError = "none"
    /\ qBlockNumber = -1
    /\ historicalBlockNumber = -1
    /\ tagged = -1
    /\ upstream = 0
    /\ response = NoResponse

\* const body = await request.json(), and the test for a missing address or
\* date: status 400, or on to the block lookup; a body that does not parse
\* throws into the catch clause of POST.
ReadBody ==
    /\ qPc = "body"
    /\ IF ~bodyOk
       THEN /\ qError' = "body"
            /\ response' = ErrorResponse(500, "body")
            /\ qPc' = "failed"
       ELSE IF Missing(hasAddress, hasDate)
       THEN /\ qError' = "required"
            /\ response' = ErrorResponse(400, "required")
            /\ qPc' = "rejected"
       ELSE /\ qPc' = "resolve"
            /\ UNCHANGED <<qError, response>>
    /\ UNCHANGED <<notPostVars, requestVars, symbol, tokenInfo, dec, sym, decimals,
                   rawBalance, balanceFormatted, qBlockNumber, historicalBlockNumber,
                   tagged, upstream>>

\* address = address.trim(): a TypeError when address is undefined.
\* const blockNumber = await getBlockNumberByTimestamp(chain, network, ts)
BlockResolves ==
    /\ qPc = "resolve"
    /\ IF ~hasAddress
       THEN /\ qError' = "trim"
            /\ response' = ErrorResponse(500, "trim")
            /\ qPc' = "failed"
            /\ UNCHANGED <<qBlockNumber, upstream>>
       ELSE /\ upstream' = upstream + 1
            /\ \E n \in Blocks : qBlockNumber' = n
            /\ qPc' = "provider"
            /\ UNCHANGED <<qError, response>>
    /\ UNCHANGED <<notPostVars, requestVars, symbol, tokenInfo, dec, sym, decimals,
                   rawBalance, balanceFormatted, historicalBlockNumber, tagged>>

\* getBlockNumberByTimestamp throws.
BlockLookupThrows ==
    /\ qPc = "resolve" /\ hasAddress
    /\ upstream' = upstream + 1
    /\ qError' = "resolve"
    /\ response' = ErrorResponse(500, "resolve")
    /\ qPc' = "failed"
    /\ UNCHANGED <<notPostVars, requestVars, symbol, tokenInfo, dec, sym, decimals,
                   rawBalance, balanceFormatted, qBlockNumber, historicalBlockNumber,
                   tagged>>

\* const rpcUrl = getRpcUrl(chain, network): throws without the Alchemy key,
\* except on tron.
GetRpcUrl ==
    /\ qPc = "provider"
    /\ IF qChain # "tron" /\ ~qKey
       THEN /\ qError' = "config"
            /\ response' = ErrorResponse(500, "config")
            /\ qPc' = "failed"
       ELSE /\ qPc' = IF qChain = "tron" THEN "tronBlock" ELSE "balance"
            /\ UNCHANGED <<qError, response>>
    /\ UNCHANGED <<notPostVars, requestVars, symbol, tokenInfo, dec, sym, decimals,
                   rawBalance, balanceFormatted, qBlockNumber, historicalBlockNumber,
                   tagged, upstream>>

\* tron: historicalBlockNumber = await getBlockNumberByTimestamp(chain, network, ts)
TronBlockResolves ==
    /\ qPc = "tronBlock"
    /\ upstream' = upstream + 1
    /\ \E n \in Blocks : historicalBlockNumber' = n
    /\ qPc' = "balance"
    /\ UNCHANGED <<notPostVars, requestVars, symbol, tokenInfo, dec, sym, decimals,
                   rawBalance, balanceFormatted, qError, qBlockNumber, tagged, response>>

\* tron: that second lookup throws; POST rethrows 'Failed to fetch Tron balance'.
TronBlockThrows ==
    /\ qPc = "tronBlock"
    /\ upstream' = upstream + 1
    /\ qError' = "resolve"
    /\ response' = ErrorResponse(500, "resolve")
    /\ qPc' = "failed"
    /\ UNCHANGED <<notPostVars, requestVars, symbol, tokenInfo, dec, sym, decimals,
                   rawBalance, balanceFormatted, qBlockNumber, historicalBlockNumber,
                   tagged>>

\* Direct-query chains, native: provider.getBalance and formatEther.
NativeBalanceArrives ==
    /\ qPc = "balance" /\ qChain # "tron" /\ ~tokenAddress
    /\ upstream' = upstream + 1
    /\ tagged' = BlockTag(qBlockNumber)
    /\ rawBalance' = stateAt[tagged']
    /\ balanceFormatted' = formatEther(rawBalance')
    /\ response' = Success(qBlockNumber, balanceFormatted', symbol, rawBalance')
    /\ qPc' = "responded"
    /\ UNCHANGED <<notPostVars, requestVars, symbol, tokenInfo, dec, sym,
                   decimals, qError, qBlockNumber, historicalBlockNumber>>

\* Direct-query chains, token: contract.balanceOf(address, { blockTag }).
BalanceOfArrives ==
    /\ qPc = "balance" /\ qChain # "tron" /\ tokenAddress
    /\ upstream' = upstream + 1
    /\ tagged' = BlockTag(qBlockNumber)
    /\ rawBalance' = stateAt[tagged']
    /\ qPc' = "metadata"
    /\ UNCHANGED <<notPostVars, requestVars, symbol, tokenInfo, dec, sym,
                   decimals, balanceFormatted, qError, qBlockNumber,
                   historicalBlockNumber, response>>

\* The balance call of a direct-query chain fails: the query ends with status 500.
BalanceCallFails ==
    /\ qPc = "balance" /\ qChain # "tron"
    /\ upstream' = upstream + 1
    /\ tagged' = BlockTag(qBlockNumber)
    /\ qError' = "balance"
    /\ response' = ErrorResponse(500, "balance")
    /\ qPc' = "failed"
    /\ UNCHANGED <<notPostVars, requestVars, symbol, tokenInfo, dec, sym,
                   decimals, rawBalance, balanceFormatted, qBlockNumber,
                   historicalBlockNumber>>

\* Promise.all([contract.decimals(), contract.symbol()]) inside try/catch: both
\* answer, or the catch clause formats with formatEther.
MetadataArrives ==
    /\ qPc = "metadata"
    /\ upstream' = upstream + 1
    /\ \E d \in DecimalsOutcomes, s \in SymbolOutcomes :
         /\ dec' = d
         /\ sym' = s
         /\ IF d # Reverted /\ s # Reverted
            THEN /\ symbol' = s.s
                 /\ decimals' = d
                 /\ balanceFormatted' = formatUnits(rawBalance, d.n)
            ELSE /\ symbol' = symbol
                 /\ decimals' = decimals
                 /\ balanceFormatted' = formatEther(rawBalance)
    /\ response' = Success(qBlockNumber, balanceFormatted', symbol', rawBalance)
    /\ qPc' = "responded"
    /\ UNCHANGED <<notPostVars, requestVars, tokenInfo, rawBalance, qError,
                   qBlockNumber, historicalBlockNumber, tagged>>

\* tron, token: getTronTokenInfo answers; symbol and decimals are taken from it.
TokenInfoArrives ==
    /\ qPc = "balance" /\ qChain = "tron" /\ tokenAddress
    /\ upstream' = upstream + 1
    /\ \E info \in TokenInfos :
         /\ tokenInfo' = info
         /\ symbol' = IF info # Null
                      THEN (IF info.symbol = Undefined THEN "undefined" ELSE info.symbol.s)
                      ELSE "UNKNOWN"
         /\ decimals' = IF info # Null THEN OrElse(info.decimals, Number(18)) ELSE Number(18)
    /\ qPc' = "replay"
    /\ UNCHANGED <<notPostVars, requestVars, dec, sym, rawBalance,
                   balanceFormatted, qError, qBlockNumber, historicalBlockNumber,
                   tagged, response>>

\* tron, token: getTronTokenHistoricalBalance returns; the display amount is
\* rawBalance / Math.pow(10, decimals).
TokenReplayReturns ==
    /\ qPc = "replay"
    /\ upstream' = upstream + 1
    /\ rawBalance' = held
    /\ balanceFormatted' = Divided(held, decimals.n)
    /\ response' = Success(historicalBlockNumber, balanceFormatted', symbol, held)
    /\ qPc' = "responded"
    /\ UNCHANGED <<notPostVars, requestVars, symbol, tokenInfo, dec, sym,
                   decimals, qError, qBlockNumber, historicalBlockNumber, tagged>>

\* tron, native: getTronHistoricalBalance returns; rawBalance / 1_000_000.
NativeReplayReturns ==
    /\ qPc = "balance" /\ qChain = "tron" /\ ~tokenAddress
    /\ upstream' = upstream + 1
    /\ rawBalance' = held
    /\ balanceFormatted' = Divided(held, 6)
    /\ response' = Success(historicalBlockNumber, balanceFormatted', symbol, held)
    /\ qPc' = "responded"
    /\ UNCHANGED <<notPostVars, requestVars, symbol, tokenInfo, dec, sym,
                   decimals, qError, qBlockNumber, historicalBlockNumber, tagged>>

\* tron: the replay throws; POST rethrows 'Failed to fetch Tron balance'.
ReplayThrows ==
    /\ \/ qPc = "replay"
       \/ qPc = "balance" /\ qChain = "tron" /\ ~tokenAddress
    /\ upstream' = upstream + 1
    /\ qError' = "balance"
    /\ response' = ErrorResponse(500, "balance")
    /\ qPc' = "failed"
    /\ UNCHANGED <<notPostVars, requestVars, symbol, tokenInfo, dec, sym,
                   decimals, rawBalance, balanceFormatted, qBlockNumber,
                   historicalBlockNumber, tagged>>

NextPost ==
    \/ ReadBody
    \/ BlockResolves
    \/ BlockLookupThrows
    \/ GetRpcUrl
    \/ TronBlockResolves
    \/ TronBlockThrows
    \/ NativeBalanceArrives
    \/ BalanceOfArrives
    \/ BalanceCallFails
    \/ MetadataArrives
    \/ TokenInfoArrives
    \/ TokenReplayReturns
    \/ NativeReplayReturns
    \/ ReplayThrows

SpecPost == InitPost /\ [][NextPost]_vars

\* The native symbol of each chain.
NativeSymbolOf(c) ==
    CASE c = "ethereum" -> "ETH" [] c = "polygon" -> "MATIC"
      [] c = "bsc" -> "BNB" [] c = "tron" -> "TRX"

\* The lookup of the token's decimals and symbol has failed: on a direct-query
\* chain one of the two calls (or both) reverted; on tron getTronTokenInfo
\* gave no token.
MetadataLookupFailed ==
    IF qChain = "tron" THEN qPc \in {"replay", "responded", "failed"} /\ tokenInfo = Null
    ELSE dec = Reverted \/ sym = Reverted

\* C17: a token query whose metadata lookup fails still succeeds and reports the
\* balance with 18 decimals and the native symbol of the chain; the failed
\* lookup alone never ends the query with an error.
C17_MetadataFallback ==
    (tokenAddress /\ MetadataLookupFailed) =>
        /\ qPc = "failed" => qError = "balance"
        /\ qPc = "responded" =>
             /\ balanceFormatted = Divided(rawBalance, 18)
             /\ symbol = NativeSymbolOf(qChain)

\* C18: the display amount of a Tron replay is the raw balance divided by
\* 1,000,000 for native TRX and by 10^d for a token, d being the decimals of
\* the token metadata whenever the metadata gives them (0 included), and 18
\* only when it does not.
C18_TronDisplayAmount ==
    (qChain = "tron" /\ qPc = "responded") =>
        IF ~tokenAddress
        THEN balanceFormatted = Divided(rawBalance, 6)
        ELSE IF tokenInfo # Null /\ tokenInfo.decimals # Undefined
        THEN balanceFormatted = Divided(rawBalance, tokenInfo.decimals.n)
        ELSE balanceFormatted = Divided(rawBalance, 18)

\* C23: on a direct-query chain the state query is issued at the block number
\* the resolver returned for the query, and the successful response reports
\* this block number, the raw value the chain state holds at it (the value the
\* state query returned) and, for a native query, the native symbol of the
\* chain.
C23_StateQueryAtResolvedBlock ==
    qChain \in {"ethereum", "polygon", "bsc"} =>
        /\ tagged # -1 => tagged = qBlockNumber
        /\ rawBalance # -1 => rawBalance = stateAt[qBlockNumber]
        /\ qPc = "responded" =>
              /\ response.status = 200
              /\ response.blockNumber = qBlockNumber
              /\ response.rawBalance = stateAt[qBlockNumber]
              /\ ~tokenAddress => response.symbol = NativeSymbolOf(qChain)

\* A native query on polygon resolved to block 0, where the state holds
\* 1500000 units and another value at the tip.
C23_Witness ==
    /\ qChain = "polygon" /\ ~tokenAddress /\ qPc = "responded"
    /\ qBlockNumber = 0 /\ tagged = 0
    /\ stateAt[0] = 1500000 /\ stateAt[MaxBlock] # 1500000
    /\ response = Success(0, Divided(1500000, 18), "MATIC", 1500000)

\* The handler has returned.
Returned == qPc \in {"rejected", "responded", "failed"}

\* C28: a POST that has nothing left to do has returned exactly one response
\* (every throw ends in the response of the catch clause); a parsed body
\* without address or date gets status 400 and no upstream call is ever made
\* for it; a failure of any other step gets status 500 with its message; and
\* otherwise the response is the success carrying balance and blockNumber.
C28_OneResponsePerQuery ==
    /\ ~ENABLED NextPost => Returned
    /\ Returned <=> response # NoResponse
    /\ Returned => ~ENABLED NextPost
    /\ (bodyOk /\ (~hasAddress \/ ~hasDate)) =>
          /\ upstream = 0
          /\ Returned => response = ErrorResponse(400, "required")
    /\ qPc = "rejected" => bodyOk /\ (~hasAddress \/ ~hasDate)
    /\ qPc = "failed" =>
          qError # "none" /\ response = ErrorResponse(500, qError)
    /\ qPc = "responded" =>
          /\ qError = "none"
          /\ response.status = 200
          /\ response.balance = balanceFormatted /\ balanceFormatted # NoAmount
          /\ response.blockNumber \in Blocks

\* A query whose state query fails after the block was resolved: status 500.
C28_Witness ==
    /\ qChain = "ethereum" /\ qPc = "failed" /\ qError = "balance"
    /\ upstream = 2 /\ response = ErrorResponse(500, "balance")

----------------------------------------------------------------------------
(* The form page: Submit, Clear and the arrival of responses               *)

\* Submits tried.
MaxSubmits == 3

\* Addresses typed into the form.
Addresses == {"0xAAA", "T..."}

\* useState(null), and what setResult / setError store for a submit.
NullValue == [t |-> "null"]
ResultOf(id) == [t |-> "data", submit |-> id]
ErrorOf(id) == [t |-> "message", submit |-> id]

InitForm ==
    /\ FetchIdle
    /\ ResolverIdle
    /\ ReplayIdle
    /\ TronBlockIdle
    /\ ProfileIdle
    /\ PostIdle
    /\ PagingIdle
    /\ formData = "empty"
    /\ loading = FALSE
    /\ result = NullValue
    /\ error = NullValue
    /\ pending = 0
    /\ submits = 0
    /\ clearedAt = -1
    /\ completedSinceClear = {}

\* handleChange: the user types into a field.
HandleChange ==
    /\ \E v \in Addresses : v # formData /\ formData' = v
    /\ UNCHANGED <<notFormVars, loading, result, error, pending, submits, clearedAt,
                   completedSinceClear>>

\* handleSubmit up to its await: the button is disabled while loading and the
\* required fields must be filled.
Submit ==
    /\ ~loading
    /\ formData # "empty"
    /\ submits < MaxSubmits
    /\ loading' = TRUE
    /\ error' = NullValue
    /\ result' = NullValue
    /\ submits' = submits + 1
    /\ pending' = submits + 1
    /\ UNCHANGED <<notFormVars, formData, clearedAt, completedSinceClear>>

\* The response arrives with res.ok: setResult(data), finally setLoading(false).
ResponseArrives ==
    /\ pending # 0
    /\ result' = ResultOf(pending)
    /\ loading' = FALSE
    /\ pending' = 0
    /\ completedSinceClear' = completedSinceClear \cup {pending}
    /\ UNCHANGED <<notFormVars, formData, error, submits, clearedAt>>

\* The request fails or answers an error: setError(err.message), finally
\* setLoading(false).
RequestFails ==
    /\ pending # 0
    /\ error' = ErrorOf(pending)
    /\ loading' = FALSE
    /\ pending' = 0
    /\ completedSinceClear' = completedSinceClear \cup {pending}
    /\ UNCHANGED <<notFormVars, formData, result, submits, clearedAt>>

\* The onClick of Clear: the form is emptied, result and error are set to null.
Clear ==
    /\ formData' = "empty"
    /\ result' = NullValue
    /\ error' = NullValue
    /\ clearedAt' = submits
    /\ completedSinceClear' = {}
    /\ UNCHANGED <<notFormVars, loading, pending, submits>>

NextForm ==
    \/ HandleChange
    \/ Submit
    \/ ResponseArrives
    \/ RequestFails
    \/ Clear

SpecForm == InitForm /\ [][NextForm]_vars

\* C29: once Clear has been pressed, result and error are null for as long as
\* no submit made after that Clear has completed: what a submit made before
\* the Clear brings back is not displayed.
C29_NothingShownAfterClear ==
    (clearedAt # -1 /\ \A id \in completedSinceClear : id <= clearedAt) =>
        result = NullValue /\ error = NullValue

=============================================================================
